---- MODULE Spec2Model ----
(***************************************************************************)
(* Platform_ChemSafety: chemical inventory pages, KOSHA / KECO registry    *)
(* clients, field extractors and the emission calculator.                  *)
(*                                                                         *)
(* Conventions.  A Python dict is a TLA+ record and dict.get(k, d) is      *)
(* Get(d, k, default).  A free text (a spreadsheet cell, an XML itemDetail,*)
(* a label) is a sequence of tokens; a token is a whitespace " " or one    *)
(* unbroken fragment of text.  Korean literals of the source are written   *)
(* with ASCII names; the comment next to each use gives the literal.       *)
(***************************************************************************)
EXTENDS Integers, Sequences, FiniteSets, TLC

(***************************************************************************)
(* Python values                                                           *)
(***************************************************************************)
PyNone == "<None>"                   \* None where a text is expected
NoDict == <<>>                       \* None, or {}, where a dict is expected
Raised == [raised |-> TRUE]          \* an exception propagating out of a call
IsRaised(r) == "raised" \in DOMAIN r
IsNoDict(d) == DOMAIN d = {}         \* not d

Falsy(v) == v = PyNone \/ v = ""      \* not v, for a string; a token text is falsy when <<>>
PyOr(v, d) == IF Falsy(v) THEN d ELSE v                  \* v or d
Get(dict, key, default) == IF key \in DOMAIN dict THEN dict[key] ELSE default

Range(s) == {s[i] : i \in 1..Len(s)}
Min(a, b) == IF a <= b THEN a ELSE b
Max(a, b) == IF a >= b THEN a ELSE b

\* str.strip(): drop the leading and the trailing whitespace tokens
RECURSIVE LStrip(_)
LStrip(t) == IF t # <<>> /\ Head(t) = " " THEN LStrip(Tail(t)) ELSE t
RECURSIVE RStrip(_)
RStrip(t) == IF t # <<>> /\ t[Len(t)] = " " THEN RStrip(SubSeq(t, 1, Len(t) - 1)) ELSE t
Strip(t) == RStrip(LStrip(t))

\* ''.join(tokens): the text as one string
RECURSIVE Join(_)
Join(t) == IF t = <<>> THEN "" ELSE Head(t) \o Join(Tail(t))

\* sep.join(strings)
RECURSIVE JoinWith(_, _)
JoinWith(sep, strs) ==
    IF strs = <<>> THEN ""
    ELSE IF Len(strs) = 1 THEN strs[1]
    ELSE strs[1] \o sep \o JoinWith(sep, Tail(strs))

(***************************************************************************)
(* The registries.  What each registry holds is fixed public data; what a  *)
(* single HTTP exchange brings back is the environment's choice.           *)
(***************************************************************************)
CasAcetone == <<"67-64-1">>        \* registered with KOSHA and with KECO
CasUnknown == <<"99-99-9">>        \* registered nowhere
CasNumbers == {CasAcetone, CasUnknown}

\* How one HTTP exchange ends: requests.get raises (timeout, connection),
\* raise_for_status raises, the body does not parse, the body is a JSON value
\* that is no object, or the registry's answer arrives.
HttpKinds == {"timeout", "http_error", "malformed", "not_object", "answer"}

\* KECO chemSbstnList: the items the registry answers for a CAS number
KecoTypeList ==
    << [sbstnClsfTypeNm |-> "existing_chemical", unqNo |-> "V", contInfo |-> <<>>, excpInfo |-> <<>>],
       [sbstnClsfTypeNm |-> "accident_preparedness", unqNo |-> "28",
        contInfo |-> <<"mixture", " ", "85", "%", " ", "ge">>, excpInfo |-> <<>>],
       [sbstnClsfTypeNm |-> "toxic", unqNo |-> "97-1-5", contInfo |-> <<"25", "%">>, excpInfo |-> <<>>] >>

KecoItems(cas_no) ==
    IF cas_no = CasAcetone
    THEN << [casNo |-> "67-64-1", korexst |-> "KE-29367", sbstnNmKor |-> "acetone_kr",
             sbstnNmEng |-> "Acetone", typeList |-> KecoTypeList] >>
    ELSE <<>>

\* the decoded JSON document of an answer
KecoAnswer(cas_no) ==
    [header |-> [resultCode |-> "200", resultMsg |-> "NORMAL"],
     body |-> [items |-> KecoItems(cas_no)]]

(***************************************************************************)
(* core/keco_api.py                                                        *)
(***************************************************************************)
\* try: body  except Exception: handler
TryExcept(body, handler) == IF IsRaised(body) THEN handler ELSE body

\* numbers and qualifiers of the percent patterns: \d+(?:\.\d+)? and
\* (ge|le|gt|lt) for the Korean words for "or more", "or less", "over", "under"
IsNumber(tok) == tok \in {"1", "25", "85", "200", "250", "500", "750", "1000"}
IsQualifier(tok) == tok \in {"ge", "le", "gt", "lt"}

\* the first index from i on that holds no whitespace (\s*)
RECURSIVE SkipSpace(_, _)
SkipSpace(t, i) == IF i <= Len(t) /\ t[i] = " " THEN SkipSpace(t, i + 1) ELSE i

Holds(t, i, Test(_)) == i <= Len(t) /\ Test(t[i])
IsPercentSign(tok) == tok = "%"

\* r'(\d+(?:\.\d+)?)\s*%\s*(ge|le|gt|lt)' matched at position i
MatchPercentQualifierAt(t, i) ==
    /\ Holds(t, i, IsNumber)
    /\ Holds(t, SkipSpace(t, i + 1), IsPercentSign)
    /\ Holds(t, SkipSpace(t, SkipSpace(t, i + 1) + 1), IsQualifier)
\* r'(\d+(?:\.\d+)?)\s*%' matched at position i
MatchPercentAt(t, i) ==
    Holds(t, i, IsNumber) /\ Holds(t, SkipSpace(t, i + 1), IsPercentSign)

\* re.search: the leftmost position of a set of match positions
Leftmost(S) == CHOOSE j \in S : \A k \in S : j <= k

PercentWithQualifier(text, i) == text[i] \o "%" \o text[SkipSpace(text, SkipSpace(text, i + 1) + 1)]

extract_percent_from_text(text) ==
    IF text = <<>> THEN ""
    ELSE IF \E i \in 1..Len(text) : MatchPercentQualifierAt(text, i)
    THEN PercentWithQualifier(text, Leftmost({j \in 1..Len(text) : MatchPercentQualifierAt(text, j)}))
    ELSE IF \E i \in 1..Len(text) : MatchPercentAt(text, i)
    THEN text[Leftmost({j \in 1..Len(text) : MatchPercentAt(text, j)})] \o "%"
    ELSE ""

\* the nine classification names of classification_map
\* (toxic, restricted, prohibited, permitted, accident_preparedness,
\*  existing_chemical, registration_target, mass_produced, priority_control)
ClassificationNames ==
    {"toxic", "restricted", "prohibited", "permitted", "accident_preparedness",
     "existing_chemical", "registration_target", "mass_produced", "priority_control"}

ClassificationMark(percent) == IF percent # "" THEN "O(" \o percent \o ")" ELSE "O"

\* the loop assigns classification_map[type_name] at every item of that type:
\* the value left is the one of the last such item
ClassificationOf(type_list, c) ==
    IF \E i \in 1..Len(type_list) : Get(type_list[i], "sbstnClsfTypeNm", "") = c
    THEN ClassificationMark(extract_percent_from_text(
            Get(type_list[CHOOSE i \in 1..Len(type_list) :
                    /\ Get(type_list[i], "sbstnClsfTypeNm", "") = c
                    /\ \A j \in (i + 1)..Len(type_list) : Get(type_list[j], "sbstnClsfTypeNm", "") # c],
                "contInfo", <<>>)))
    ELSE "-"

\* the three details an item may add, in the order the loop adds them:
\* "<type>_content" (contInfo), "<type>_exception" (excpInfo),
\* "<type>_number" (unqNo other than "V")
DetailSuffix == <<"_content", "_exception", "_number">>
DetailValue(item, k) ==
    CASE k = 1 -> Join(Get(item, "contInfo", <<>>))
      [] k = 2 -> Join(Get(item, "excpInfo", <<>>))
      [] OTHER -> Get(item, "unqNo", "")
DetailSet(item, k) ==
    /\ Get(item, "sbstnClsfTypeNm", "") \in ClassificationNames
    /\ CASE k = 1 -> Get(item, "contInfo", <<>>) # <<>>
         [] k = 2 -> Get(item, "excpInfo", <<>>) # <<>>
         [] OTHER -> ~Falsy(Get(item, "unqNo", "")) /\ Get(item, "unqNo", "") # "V"

\* the assignments details[key] = value of the whole loop, in program order:
\* assignment p is made by item ItemAt(p), detail DetailAt(p)
ItemAt(p) == ((p - 1) \div 3) + 1
DetailAt(p) == ((p - 1) % 3) + 1
DetailAssignments(type_list) ==
    [p \in 1..(3 * Len(type_list)) |->
        [key |-> <<Get(type_list[ItemAt(p)], "sbstnClsfTypeNm", ""), DetailSuffix[DetailAt(p)]>>,
         value |-> DetailValue(type_list[ItemAt(p)], DetailAt(p)),
         set |-> DetailSet(type_list[ItemAt(p)], DetailAt(p))]]

\* a dict keeps a key at the place of its first assignment, with the value of its last
IsSet(a) == a.set
KeyValue(a) == [key |-> a.key, value |-> a.value]
DictOf(assignments) ==
    LET made == SelectSeq(assignments, IsSet)
        first == SelectSeq([p \in 1..Len(made) |->
                      [made[p] EXCEPT !.set = \A q \in 1..(p - 1) : made[q].key # made[p].key]], IsSet)
    IN  [p \in 1..Len(first) |->
            [key |-> first[p].key,
             value |-> made[CHOOSE q \in 1..Len(made) :
                          /\ made[q].key = first[p].key
                          /\ \A r \in (q + 1)..Len(made) : made[r].key # first[p].key].value]]

extract_classifications(type_list) ==
    [c \in ClassificationNames \cup {"details"} |->
        IF c = "details" THEN DictOf(DetailAssignments(type_list))
        ELSE ClassificationOf(type_list, c)]

ParseItem(item, query) ==
    [success |-> TRUE, query |-> query,
     cas_no |-> Get(item, "casNo", ""),
     ke_no |-> Get(item, "korexst", ""),
     name_kr |-> Get(item, "sbstnNmKor", ""),
     classification |-> extract_classifications(Get(item, "typeList", <<>>))]

ParseDocument(header, body, query) ==
    IF Get(header, "resultCode", "") # "200"
    THEN [success |-> FALSE, query |-> query, error |-> Get(header, "resultMsg", "")]
    ELSE IF Get(body, "items", <<>>) = <<>>
    THEN [success |-> FALSE, query |-> query, error |-> "no_result"]
    ELSE ParseItem(body.items[1], query)

parse_response(data, query) ==
    TryExcept(IF "header" \notin DOMAIN data THEN Raised    \* data.get on a non-object
              ELSE ParseDocument(data.header, data.body, query),
              [success |-> FALSE, query |-> query, error |-> "parse_error"])

\* the JSON document an exchange of kind `http` delivers
KecoDocument(http, cas_no) ==
    IF http = "not_object" THEN [list |-> <<>>] ELSE KecoAnswer(cas_no)

\* search_chemical_by_cas with the try / except taken away
search_chemical_by_cas_unguarded(cas_no, http) ==
    IF http \in {"timeout", "http_error", "malformed"} THEN Raised
    ELSE parse_response(KecoDocument(http, cas_no), cas_no)

search_chemical_by_cas(cas_no, http) ==
    TryExcept(IF http \in {"timeout", "http_error", "malformed"} THEN Raised
              ELSE parse_response(KecoDocument(http, cas_no), cas_no),
              [success |-> FALSE, cas_no |-> cas_no,
               error |-> IF http = "malformed" THEN "parse_error" ELSE "request_error"])

\* regs = result["classification"].copy() with success, cas_no, name, ke_no added
RegulationsOf(result, cas_no) ==
    IF IsRaised(result) THEN Raised
    ELSE IF ~Get(result, "success", FALSE)
    THEN [success |-> FALSE, cas_no |-> cas_no, error |-> Get(result, "error", "lookup_failed")]
    ELSE [k \in ClassificationNames \cup {"details", "success", "cas_no", "name", "ke_no"} |->
            CASE k = "success" -> TRUE
              [] k = "cas_no" -> Get(result, "cas_no", cas_no)
              [] k = "name" -> Get(result, "name_kr", "")
              [] k = "ke_no" -> Get(result, "ke_no", "")
              [] OTHER -> result.classification[k]]

get_chemical_regulations(cas_no, http) ==
    RegulationsOf(search_chemical_by_cas(cas_no, http), cas_no)

(***************************************************************************)
(* core/kosha_api.py                                                       *)
(*                                                                         *)
(* An XML <item> is [name_kor |-> label, detail |-> value], both texts.    *)
(* Tokens of the texts and the literal each stands for:                    *)
(*   no_data = jaryo-eopseum, not_applicable = haedang-eopseum, "-"        *)
(*   law_osh = san-eop-anjeon-bogeon-beop, law_osh_short = sananbeop,      *)
(*   law_chem = hwagwanbeop, hazardous_chemical = yuhae-hwahak-muljil,     *)
(*   law_hazmat = wiheommul-anjeon-gwanri-beop (holds hazmat = wiheommul), *)
(*   law_waste = pyegimul-gwanri-beop (holds waste = pyegimul),            *)
(*   work_measure = jageop-hwangyeong-cheukjeong,                          *)
(*   work_measure_target = jageop-hwangyeong-cheukjeong-daesang            *)
(*       (holds work_measure and measure_target = cheukjeong-daesang),     *)
(*   special_health = teuksu-geongang-jindan (holds health_exam),          *)
(*   managed_hazardous = gwanri-daesang-yuhae-muljil (holds managed),      *)
(*   special_managed_substance = teukbyeol-gwanri-muljil                   *)
(*       (holds special_managed = teukbyeol-gwanri),                       *)
(*   permissible = heoyong-gijun, process_safety = gongjeong-anjeon,       *)
(*   toxic = yudok, permitted = heoga, restricted = jehan,                 *)
(*   prohibited = geumji, accident = sago-daebi.                           *)
(***************************************************************************)
Dash == <<"-">>                       \* the text '-'
NoData == <<"no_data">>
NotApplicable == <<"not_applicable">>

\* the keywords a token holds as substrings
Parts(tok) ==
    {tok} \cup
    CASE tok = "work_measure_target" -> {"work_measure", "measure_target"}
      [] tok = "special_health" -> {"health_exam"}
      [] tok = "managed_hazardous" -> {"managed"}
      [] tok = "special_managed_substance" -> {"special_managed"}
      [] tok = "law_hazmat" -> {"hazmat"}
      [] tok = "law_waste" -> {"waste"}
      [] tok = "hazardous_chemical_label" -> {"hazardous_chemical"}
      [] tok = "carcinogenicity_label" -> {"carcinogenicity"}
      [] tok = "acute_oral_toxicity" -> {"oral_toxicity"}
      [] tok = "category1A" -> {"category1", "1A"}
      [] tok = "category1B" -> {"category1", "1B"}
      [] OTHER -> {}

\* keyword in text
In(kw, text) == \E i \in 1..Len(text) : kw \in Parts(text[i])

\* str.lower() of a label, for the tokens whose case matters to a test
LowerTok(tok) ==
    CASE tok = "IARC" -> "iarc"
      [] tok = "ACGIH" -> "acgih"
      [] tok = "NTP" -> "ntp"
      [] tok = "pH" -> "ph"
      [] tok = "Log" -> "log"
      [] OTHER -> tok
Lower(text) == [i \in 1..Len(text) |-> LowerTok(text[i])]

\* text[:n]; every text of the model is shorter than every limit of the source
Slice(text, n) == SubSeq(text, 1, Min(Len(text), n))

\* what one request of a detail function leaves in `root`: the exchange fails
\* (requests.get raises, or ET.fromstring raises on the body) or the items arrive
RootItems(http, items) == IF http = "answer" THEN [item |-> items] ELSE Raised

\* for item in root.findall('.//item'): result = Step(result, item)
RECURSIVE Loop(_, _, _)
Loop(Step(_, _), result, items) ==
    IF items = <<>> THEN result ELSE Loop(Step, Step(result, Head(items)), Tail(items))

\* try: <request>; <loop>  except Exception: pass;  return result
Extract(Step(_, _), result, root) ==
    IF IsRaised(root) THEN result ELSE Loop(Step, result, root.item)

RawEntry(item) == [label |-> item.name_kor, content |-> item.detail]

\* ---- get_exposure_limits -------------------------------------------------
IsTwa(tok) == tok \in {"TWA", "twa"}
IsStel(tok) == tok \in {"STEL", "stel"}
IsCeiling(tok) == tok \in {"Ceiling", "ceiling"}
IsColonSpace(tok) == tok \in {":", " ", "\n"}          \* [:\s]
IsCaptured(tok) == tok \notin {",", ";", "\n"}          \* [^,;\n]
IsUnit(tok) == tok \in {"ppm", "mg/m3"}

\* the first index from i on that is past the run of tokens passing Test
RECURSIVE SkipWhile(_, _, _)
SkipWhile(Test(_), t, i) ==
    IF i <= Len(t) /\ Test(t[i]) THEN SkipWhile(Test, t, i + 1) ELSE i

\* KEY[:\s]*([^,;\n]+) with KEY at i and the [:\s]* run ending before k:
\* the group starts at k when a token it may take stands there; otherwise the
\* run gives back its last token that the group may take
GroupStart(t, i, k) ==
    IF k <= Len(t) /\ IsCaptured(t[k]) THEN k
    ELSE IF \E p \in (i + 1)..(k - 1) : IsCaptured(t[p])
    THEN CHOOSE p \in (i + 1)..(k - 1) :
            IsCaptured(t[p]) /\ \A q \in (p + 1)..(k - 1) : ~IsCaptured(t[q])
    ELSE 0
GroupFrom(t, k, start) ==
    IF start = k THEN SubSeq(t, k, SkipWhile(IsCaptured, t, k) - 1) ELSE <<t[start]>>

KeyMatchesAt(IsKey(_), t, i) ==
    IsKey(t[i]) /\ GroupStart(t, i, SkipWhile(IsColonSpace, t, i + 1)) # 0
KeyMatches(IsKey(_), t) == \E i \in 1..Len(t) : KeyMatchesAt(IsKey, t, i)
GroupAt(t, i) ==
    GroupFrom(t, SkipWhile(IsColonSpace, t, i + 1),
              GroupStart(t, i, SkipWhile(IsColonSpace, t, i + 1)))
\* re.search(...).group(1) of the leftmost match
KeyGroup(IsKey(_), t) == GroupAt(t, Leftmost({i \in 1..Len(t) : KeyMatchesAt(IsKey, t, i)}))

\* (\d+(?:\.\d+)?\s*(?:ppm|mg/m3)) matched at i
IsBlank(tok) == tok \in {" ", "\n"}
PpmMatchesAt(t, i) == IsNumber(t[i]) /\ Holds(t, SkipWhile(IsBlank, t, i + 1), IsUnit)
PpmMatches(t) == \E i \in 1..Len(t) : PpmMatchesAt(t, i)
PpmFrom(t, i) == SubSeq(t, i, SkipWhile(IsBlank, t, i + 1))
PpmGroup(t) == PpmFrom(t, Leftmost({i \in 1..Len(t) : PpmMatchesAt(t, i)}))

ExposureDefaults == [TWA |-> Dash, STEL |-> Dash, ceiling |-> Dash, raw_data |-> <<>>]

ExposureTwa(twa, detail) ==
    IF twa = Dash /\ PpmMatches(detail) THEN PpmGroup(detail) ELSE twa

ExposureStep(result, item) ==
    IF item.detail = <<>> \/ item.detail \in {NoData, NotApplicable} THEN result
    ELSE IF In("domestic", item.name_kor) \/ In("exposure_limit", item.name_kor)
            \/ In("moel", item.name_kor)
    THEN [result EXCEPT
            !.raw_data = Append(@, RawEntry(item)),
            !.TWA = ExposureTwa(IF KeyMatches(IsTwa, item.detail)
                                THEN Slice(Strip(KeyGroup(IsTwa, item.detail)), 50) ELSE @,
                                item.detail),
            !.STEL = IF KeyMatches(IsStel, item.detail)
                     THEN Slice(Strip(KeyGroup(IsStel, item.detail)), 50) ELSE @,
            !.ceiling = IF KeyMatches(IsCeiling, item.detail)
                        THEN Slice(Strip(KeyGroup(IsCeiling, item.detail)), 50) ELSE @]
    ELSE [result EXCEPT !.raw_data = Append(@, RawEntry(item))]

get_exposure_limits(http, items) ==
    Extract(ExposureStep, ExposureDefaults, RootItems(http, items))

\* ---- get_legal_regulations -----------------------------------------------
LegalDefaults ==
    [work_measure |-> "X", special_health |-> "X", managed |-> "X", special_managed |-> "X",
     permissible |-> "X", psm |-> "X",
     toxic |-> Dash, permitted |-> Dash, restricted |-> Dash, prohibited |-> Dash,
     accident |-> Dash, hazmat |-> Dash, waste |-> Dash, raw_data |-> <<>>]

\* not detail or detail in ['haedang-eopseum', 'jaryo-eopseum', '-']
LegalSkips(detail) == detail = <<>> \/ detail \in {NotApplicable, NoData, Dash}

IsOshLabel(name_kor) == In("law_osh", name_kor) \/ In("law_osh_short", name_kor)
IsChemLabel(name_kor) == In("law_chem", name_kor) \/ In("hazardous_chemical", name_kor)

LegalStep(result, item) ==
    IF LegalSkips(item.detail) THEN result
    ELSE [result EXCEPT
            !.raw_data = Append(@, RawEntry(item)),
            !.work_measure = IF IsOshLabel(item.name_kor) /\ In("work_measure", item.detail)
                             THEN "O" ELSE @,
            !.special_health = IF IsOshLabel(item.name_kor) /\ In("special_health", item.detail)
                               THEN "O" ELSE @,
            !.managed = IF IsOshLabel(item.name_kor) /\ In("managed", item.detail)
                        THEN "O" ELSE @,
            !.special_managed = IF IsOshLabel(item.name_kor) /\ In("special_managed", item.detail)
                                THEN "O" ELSE @,
            !.permissible = IF IsOshLabel(item.name_kor) /\ In("permissible", item.detail)
                            THEN "O" ELSE @,
            !.psm = IF IsOshLabel(item.name_kor)
                       /\ (In("PSM", item.detail) \/ In("process_safety", item.detail))
                    THEN "O" ELSE @,
            !.toxic = IF IsChemLabel(item.name_kor) /\ In("toxic", item.detail)
                      THEN Slice(item.detail, 50) ELSE @,
            !.permitted = IF IsChemLabel(item.name_kor) /\ In("permitted", item.detail)
                          THEN Slice(item.detail, 50) ELSE @,
            !.restricted = IF IsChemLabel(item.name_kor) /\ In("restricted", item.detail)
                           THEN Slice(item.detail, 50) ELSE @,
            !.prohibited = IF IsChemLabel(item.name_kor) /\ In("prohibited", item.detail)
                           THEN Slice(item.detail, 50) ELSE @,
            !.accident = IF IsChemLabel(item.name_kor) /\ In("accident", item.detail)
                         THEN Slice(item.detail, 50) ELSE @,
            !.hazmat = IF In("hazmat", item.name_kor) /\ item.detail \notin {NotApplicable, NoData}
                       THEN Slice(item.detail, 50) ELSE @,
            !.waste = IF In("waste", item.name_kor) /\ item.detail \notin {NotApplicable, NoData}
                      THEN Slice(item.detail, 50) ELSE @]

get_legal_regulations(http, items) ==
    Extract(LegalStep, LegalDefaults, RootItems(http, items))

\* ---- get_hazard_classification ------------------------------------------
\* labels: ghs_class = yuhae-wiheomseong bunryu (either spelling),
\* signal_word = sinho-eo, hazard_statement = yuhae-wiheom mungu, H_statement,
\* precaution = yebang-jochi-mungu, P_statement, pictogram = geurim-munja
HazardDefaults ==
    [ghs_classification |-> <<>>, signal_word |-> Dash, hazard_statements |-> <<>>,
     precautionary_statements |-> <<>>, pictograms |-> <<>>, raw_data |-> <<>>]

HazardRaw(raw_data, item) ==
    IF item.detail # <<>> /\ item.detail \notin {NoData, NotApplicable, Dash}
    THEN Append(raw_data, RawEntry(item)) ELSE raw_data

HazardBranch(name_kor) ==
    CASE In("ghs_class", name_kor) -> "ghs_classification"
      [] ~In("ghs_class", name_kor) /\ In("signal_word", name_kor) -> "signal_word"
      [] ~In("ghs_class", name_kor) /\ ~In("signal_word", name_kor)
         /\ (In("hazard_statement", name_kor) \/ In("H_statement", name_kor)) -> "hazard_statements"
      [] ~In("ghs_class", name_kor) /\ ~In("signal_word", name_kor)
         /\ ~(In("hazard_statement", name_kor) \/ In("H_statement", name_kor))
         /\ (In("precaution", name_kor) \/ In("P_statement", name_kor)) -> "precautionary_statements"
      [] ~In("ghs_class", name_kor) /\ ~In("signal_word", name_kor)
         /\ ~(In("hazard_statement", name_kor) \/ In("H_statement", name_kor))
         /\ ~(In("precaution", name_kor) \/ In("P_statement", name_kor))
         /\ In("pictogram", name_kor) -> "pictograms"
      [] OTHER -> "none"

HazardAssign(result, branch, detail) ==
    CASE branch = "none" -> result
      [] branch = "signal_word" -> [result EXCEPT !.signal_word = detail]
      [] OTHER -> [result EXCEPT ![branch] = Append(@, detail)]

HazardStep(result, item) ==
    HazardAssign([result EXCEPT !.raw_data = HazardRaw(@, item)],
                 HazardBranch(item.name_kor), item.detail)

get_hazard_classification(http, items) ==
    Extract(HazardStep, HazardDefaults, RootItems(http, items))

\* ---- the if / elif chains of label tests ---------------------------------
\* An entry [field, any, lower, limit]: the branch is taken when, for one set
\* of `any`, every keyword of the set is in the label (in the lower-cased
\* label when `lower`); it assigns result[field] = detail[:limit].
Entry(field, any, limit) == [field |-> field, any |-> any, lower |-> FALSE, limit |-> limit]
LowerEntry(field, any, limit) == [field |-> field, any |-> any, lower |-> TRUE, limit |-> limit]

EntryMatches(entry, name_kor) ==
    \E alt \in entry.any :
        \A kw \in alt : In(kw, IF entry.lower THEN Lower(name_kor) ELSE name_kor)

\* the branch the chain takes for a label, 0 when it takes none
ChainBranch(chain, name_kor) ==
    IF \E b \in 1..Len(chain) : EntryMatches(chain[b], name_kor)
    THEN Leftmost({b \in 1..Len(chain) : EntryMatches(chain[b], name_kor)})
    ELSE 0

ChainAssign(chain, result, b, detail) ==
    IF b = 0 THEN result
    ELSE [result EXCEPT ![chain[b].field] = Slice(detail, chain[b].limit)]

ChainDefaults(chain) ==
    [f \in {chain[b].field : b \in 1..Len(chain)} \cup {"raw_data"} |->
        IF f = "raw_data" THEN <<>> ELSE Dash]

\* ---- get_toxicity_info ----------------------------------------------------
ToxicityChain ==
    << Entry("acute_oral", {{"acute_oral"}, {"oral_toxicity"}}, 100),
       Entry("acute_dermal", {{"acute_dermal"}, {"dermal_toxicity"}}, 100),
       Entry("acute_inhalation", {{"acute_inhalation"}, {"inhalation_toxicity"}}, 100),
       Entry("skin_corrosion", {{"skin_corrosion"}}, 100),
       Entry("eye_damage", {{"eye_damage"}, {"eyedamage"}}, 100),
       Entry("skin_sensitization", {{"skin_sensitization"}}, 100),
       Entry("respiratory_sensitization", {{"respiratory_sensitization"}}, 100),
       Entry("mutagenicity", {{"germ_cell_mutation"}, {"mutagenicity"}}, 100),
       Entry("carcinogenicity", {{"carcinogenicity"}}, 100),
       Entry("reproductive", {{"reproductive_toxicity"}}, 100),
       Entry("stot_single", {{"stot", "single"}}, 100),
       Entry("stot_repeated", {{"stot", "repeated"}}, 100),
       Entry("aspiration", {{"aspiration"}}, 100),
       LowerEntry("IARC", {{"iarc"}}, 30),
       LowerEntry("ACGIH", {{"acgih"}}, 30),
       LowerEntry("NTP", {{"ntp"}}, 30) >>

ToxicityStep(result, item) ==
    IF item.detail = <<>> \/ item.detail = NoData THEN result
    ELSE ChainAssign(ToxicityChain,
                     [result EXCEPT !.raw_data = HazardRaw(@, item)],
                     ChainBranch(ToxicityChain, item.name_kor), item.detail)

get_toxicity_info(http, items) ==
    Extract(ToxicityStep, ChainDefaults(ToxicityChain), RootItems(http, items))

\* ---- get_physical_properties ----------------------------------------------
PhysicalChain ==
    << Entry("appearance", {{"appearance"}, {"form"}}, 50),
       Entry("odor", {{"odor"}}, 50),
       LowerEntry("pH", {{"ph"}}, 30),
       Entry("melting_point", {{"melting_point"}, {"fusion_point"}}, 30),
       Entry("boiling_point", {{"boiling_point"}, {"bp"}}, 30),
       Entry("flash_point", {{"flash_point"}}, 30),
       Entry("evaporation_rate", {{"evaporation"}}, 30),
       Entry("flammability", {{"flammability"}}, 50),
       Entry("explosion_limit", {{"explosion"}}, 50),
       Entry("vapor_pressure", {{"vapor_pressure"}}, 30),
       Entry("vapor_density", {{"vapor_density"}}, 30),
       Entry("specific_gravity", {{"specific_gravity"}, {"density"}}, 30),
       Entry("solubility", {{"solubility"}}, 50),
       LowerEntry("partition_coefficient", {{"octanol"}, {"log"}}, 30),
       Entry("autoignition", {{"autoignition"}}, 30),
       Entry("decomposition", {{"decomposition"}}, 30),
       Entry("viscosity", {{"viscosity"}}, 30),
       Entry("molecular_weight", {{"molecular_weight"}}, 30) >>

\* if not detail or detail in ['jaryo-eopseum', 'haedang-eopseum']: continue
PropertySkips(detail) == detail = <<>> \/ detail \in {NoData, NotApplicable}

PhysicalStep(result, item) ==
    IF PropertySkips(item.detail) THEN result
    ELSE ChainAssign(PhysicalChain,
                     [result EXCEPT !.raw_data = HazardRaw(@, item)],
                     ChainBranch(PhysicalChain, item.name_kor), item.detail)

get_physical_properties(http, items) ==
    Extract(PhysicalStep, ChainDefaults(PhysicalChain), RootItems(http, items))

\* ---- get_ecological_info --------------------------------------------------
EcologicalChain ==
    << Entry("aquatic_toxicity", {{"aquatic"}}, 100),
       Entry("fish_toxicity", {{"fish"}}, 100),
       Entry("daphnia_toxicity", {{"daphnia"}}, 100),
       Entry("algae_toxicity", {{"algae"}}, 100),
       Entry("persistence", {{"persistence"}}, 100),
       Entry("degradability", {{"decomposition"}}, 100),
       Entry("bioaccumulation", {{"bioaccumulation"}}, 100),
       Entry("soil_mobility", {{"soil_mobility"}}, 100) >>

EcologicalStep(result, item) ==
    IF PropertySkips(item.detail) THEN result
    ELSE ChainAssign(EcologicalChain,
                     [result EXCEPT !.raw_data = HazardRaw(@, item)],
                     ChainBranch(EcologicalChain, item.name_kor), item.detail)

get_ecological_info(http, items) ==
    Extract(EcologicalStep, ChainDefaults(EcologicalChain), RootItems(http, items))

\* ---- the KOSHA registry ---------------------------------------------------
\* chemlist: the items the registry answers for a search word
KoshaList(cas_no) ==
    IF cas_no = CasAcetone
    THEN << [chemId |-> "001008", chemNameKor |-> "acetone_kr", casNo |-> "67-64-1",
             keNo |-> "KE-29367", unNo |-> "1090"] >>
    ELSE <<>>

Item(name_kor, detail) == [name_kor |-> name_kor, detail |-> detail]

\* chemdetailNN: the items the registry answers for a chemId and a section
KoshaDetail(chem_id, section) ==
    IF chem_id # "001008" THEN <<>>
    ELSE CASE section = "02" ->
                << Item(<<"ghs_class">>, <<"flammable_liquid", " ", "category2">>),
                   Item(<<"signal_word">>, <<"danger">>) >>
           [] section = "08" ->
                << Item(<<"domestic", " ", "exposure_limit">>,
                        <<"TWA", ":", " ", "500", "ppm", ",", " ", "STEL", ":", " ", "750", "ppm">>) >>
           [] section = "09" ->
                << Item(<<"flash_point">>, <<"-20C">>), Item(<<"odor">>, NoData) >>
           [] section = "11" ->
                << Item(<<"carcinogenicity">>, NoData), Item(<<"IARC">>, NotApplicable) >>
           [] section = "12" ->
                << Item(<<"fish">>, <<"LC50", " ", "5540mg/L">>) >>
           [] OTHER ->
                << Item(<<"law_osh", " ", "regulation">>,
                        <<"work_measure_target", ",", " ", "managed_hazardous", ",", " ",
                          "special_health">>),
                   Item(<<"law_chem", " ", "regulation">>, NotApplicable),
                   Item(<<"law_hazmat", " ", "regulation">>, <<"class4", " ", "petroleum1">>) >>

\* ---- search_by_cas ---------------------------------------------------------
SearchItem(items) ==
    IF items # <<>>
    THEN [chemId |-> items[1].chemId, chemNameKor |-> items[1].chemNameKor,
          casNo |-> items[1].casNo, keNo |-> items[1].keNo, unNo |-> items[1].unNo]
    ELSE NoDict                                                   \* return None

\* search_by_cas with the try / except taken away
search_by_cas_unguarded(cas_no, http) ==
    IF http \in {"timeout", "http_error", "malformed"} THEN Raised
    ELSE SearchItem(IF http = "not_object" THEN <<>> ELSE KoshaList(cas_no))

\* requests.get or raise_for_status raises, ET.fromstring raises on the body,
\* the body is a document without items, or the registry's answer arrives
search_by_cas(cas_no, http) ==
    TryExcept(IF http \in {"timeout", "http_error", "malformed"} THEN Raised
              ELSE SearchItem(IF http = "not_object" THEN <<>> ELSE KoshaList(cas_no)),
              NoDict)

\* ---- get_full_msds_data ----------------------------------------------------
\* https: the seven exchanges of the call, in the order they are made
FullMsdsData(cas_no, search_result, https) ==
    IF IsRaised(search_result) THEN Raised
    ELSE IF IsNoDict(search_result)
    THEN [success |-> FALSE, error |-> "unregistered", cas_no |-> cas_no]
    ELSE [success |-> TRUE,
          chem_id |-> search_result.chemId,
          cas_no |-> cas_no,
          name_kor |-> Get(search_result, "chemNameKor", ""),
          un_no |-> Get(search_result, "unNo", ""),
          ke_no |-> Get(search_result, "keNo", ""),
          hazard_classification |->
              get_hazard_classification(https[2], KoshaDetail(search_result.chemId, "02")),
          exposure_limits |->
              get_exposure_limits(https[3], KoshaDetail(search_result.chemId, "08")),
          physical_properties |->
              get_physical_properties(https[4], KoshaDetail(search_result.chemId, "09")),
          toxicity_info |->
              get_toxicity_info(https[5], KoshaDetail(search_result.chemId, "11")),
          ecological_info |->
              get_ecological_info(https[6], KoshaDetail(search_result.chemId, "12")),
          legal_regulations |->
              get_legal_regulations(https[7], KoshaDetail(search_result.chemId, "15"))]

get_full_msds_data(cas_no, https) ==
    FullMsdsData(Strip(cas_no), search_by_cas(Strip(cas_no), https[1]), https)

\* ---- batch_query -----------------------------------------------------------
\* exchanges[i]: the exchanges of the lookup of cas_list[i].  The list holds
\* one result per CAS number; an element Raised is an exception leaving the
\* loop at that element, so that the call raises and returns no list.
batch_query(cas_list, exchanges) ==
    [idx \in 1..Len(cas_list) |-> get_full_msds_data(cas_list[idx], exchanges[idx])]
BatchRaises(results) == \E idx \in 1..Len(results) : IsRaised(results[idx])

(***************************************************************************)
(* pages/2_(box)_inventory management (the "management" page, prefix mgmt) *)
(*                                                                         *)
(* Item keys: chem_name = hwahak-muljil-myeong, cas_no = 'CAS No',         *)
(* twa = nochul-gijun(TWA), work_measure = jageop-hwangyeong-cheukjeong,   *)
(* special_health = teuksu-geongang-jindan, managed = gwanri-daesang,      *)
(* special_managed = teukbyeol-gwanri, hazmat_class = wiheommul-ryubyeol,  *)
(* hazmat_quantity = jijeong-suryang, hazmat_grade = wiheom-deunggeup,     *)
(* existing = gijon, toxic_class = geupseong/manseong/saengtae,            *)
(* accident = sago-daebi, restricted = jehan/geumji/heoga,                 *)
(* priority = jungjeom, persistent = janryu, content_info = hamryang,      *)
(* registration_target, existing_status = gijon-muljil-yeobu.              *)
(***************************************************************************)
\* "from core.kosha_api import get_chemical_info" raises ImportError: the
\* module defines no get_chemical_info
KOSHA_AVAILABLE == FALSE
KECO_AVAILABLE == TRUE       \* core.keco_api.get_chemical_regulations imported

\* get_chemical_info as the page expects it of core.kosha_api: what it would
\* answer for a registered substance, read through the keys
\* create_inventory_item takes from it
KoshaInfo(cas_no) ==
    [success |-> TRUE, chemNmKr |-> "acetone_kr", chemNmEn |-> "Acetone",
     twa |-> "500ppm", workMeasure |-> "O", specialHealth |-> "O",
     managedSubstance |-> "O", specialManaged |-> "",
     hazmatClass |-> "class4", hazmatName |-> "petroleum1",
     hazmatQuantity |-> "400L", hazmatGrade |-> "II"]

\* how a call of get_chemical_info can end: the registry answers, the lookup
\* fails inside the callee (success False), or the callee raises
KoshaCalls == {"answer", "fails", "raise"}

\* the calls of get_chemical_info the page makes: without the import
\* query_chemical_info returns before any call, and nothing is left to choose
MadeKoshaCalls == IF KOSHA_AVAILABLE THEN KoshaCalls ELSE {"fails"}

get_chemical_info(cas_no, call) ==
    CASE call = "answer" /\ Strip(cas_no) = CasAcetone -> KoshaInfo(cas_no)
      [] call = "raise" -> Raised
      [] OTHER -> [success |-> FALSE, error |-> "unregistered"]

\* returns <<data, error>>
QueryResult(result) ==
    IF IsRaised(result) THEN <<NoDict, "api_error">>          \* except Exception
    ELSE IF Get(result, "success", FALSE) THEN <<result, PyNone>>
    ELSE <<NoDict, Get(result, "error", "lookup_failed")>>

query_chemical_info(cas_no, call) ==
    IF ~KOSHA_AVAILABLE THEN <<NoDict, "no_kosha_api">>
    ELSE QueryResult(get_chemical_info(cas_no, call))

\* the static PRTR table behind check_prtr_status
PrtrTable(cas_no) ==
    IF cas_no = CasAcetone
    THEN [applies |-> "O", group |-> "2", threshold |-> "10t"]
    ELSE [applies |-> "-", group |-> "-", threshold |-> "-"]

check_prtr_status(cas_no) == PrtrTable(cas_no)

MgmtDefaults(chem_name, cas_no) ==
    [process |-> "", unit_workplace |-> "", product |-> "",
     chem_name |-> PyOr(chem_name, ""), alias |-> "", cas_no |-> cas_no,
     content |-> "",
     carcinogenicity |-> "-", mutagenicity |-> "-", reproductive |-> "-", twa |-> "-",
     work_measure |-> "X", special_health |-> "X", managed |-> "X", special_managed |-> "X",
     hazmat_class |-> "-", hazmat_quantity |-> "-", hazmat_grade |-> "-",
     existing |-> "-", toxic_class |-> "X", accident |-> "X", restricted |-> "-",
     priority |-> "-", persistent |-> "-", content_info |-> "-",
     registration_target |-> "-", existing_status |-> "-",
     prtr_group |-> "-", prtr_threshold |-> "-"]

\* if v and v != '-'
Known(v) == ~Falsy(v) /\ v # "-"

MgmtApplyKosha(item, chem_name, kosha_data) ==
    IF IsNoDict(kosha_data) THEN item
    ELSE LET hazmat_class == PyOr(Get(kosha_data, "hazmatClass", "-"), "-")
             hazmat_name == PyOr(Get(kosha_data, "hazmatName", "-"), "-")
         IN  [item EXCEPT
                !.chem_name = IF Falsy(chem_name)
                              THEN PyOr(Get(kosha_data, "chemNmKr", ""), Get(kosha_data, "chemNmEn", ""))
                              ELSE @,
                !.twa = PyOr(Get(kosha_data, "twa", "-"), "-"),
                !.work_measure = PyOr(Get(kosha_data, "workMeasure", "X"), "X"),
                !.special_health = PyOr(Get(kosha_data, "specialHealth", "X"), "X"),
                !.managed = PyOr(Get(kosha_data, "managedSubstance", "X"), "X"),
                !.special_managed = PyOr(Get(kosha_data, "specialManaged", "X"), "X"),
                !.hazmat_class = IF hazmat_class # "-" /\ hazmat_name # "-"
                                 THEN hazmat_class \o " " \o hazmat_name
                                 ELSE IF hazmat_class # "-" THEN hazmat_class ELSE @,
                !.hazmat_quantity = PyOr(Get(kosha_data, "hazmatQuantity", "-"), "-"),
                !.hazmat_grade = PyOr(Get(kosha_data, "hazmatGrade", "-"), "-")]

\* the "<key>: <value>" strings of the details whose key holds the word for content
RECURSIVE ContentInfoList(_)
ContentInfoList(details) ==
    IF details = <<>> THEN <<>>
    ELSE IF Head(details).key[2] = "_content"
    THEN <<Join(Head(details).key) \o ": " \o Head(details).value>> \o ContentInfoList(Tail(details))
    ELSE ContentInfoList(Tail(details))

\* ToxicClass with its two tests exchanged
ToxicClassLaterFirst(current, toxic, human_hazard) ==
    IF Known(human_hazard) THEN human_hazard
    ELSE IF Known(toxic) THEN toxic ELSE current

\* if toxic and toxic != '-': ... elif human_hazard and human_hazard != '-': ...
ToxicClass(current, toxic, human_hazard) ==
    IF Known(toxic) THEN toxic
    ELSE IF Known(human_hazard) THEN human_hazard ELSE current

MgmtApplyKeco(item, keco_data) ==
    IF IsNoDict(keco_data) \/ ~Get(keco_data, "success", FALSE) THEN item
    ELSE LET existing == Get(keco_data, "existing_chemical", "-")
             toxic == Get(keco_data, "toxic", "-")
             human_hazard == Get(keco_data, "human_hazard", "-")
             accident == Get(keco_data, "accident_preparedness", "-")
             restricted == Get(keco_data, "restricted", "-")
             prohibited == Get(keco_data, "prohibited", "-")
             permitted == Get(keco_data, "permitted", "-")
             priority == Get(keco_data, "priority_control", "-")
             reg_existing == Get(keco_data, "registration_target", "-")
             reg_list == (IF Known(restricted) THEN <<"restricted(" \o restricted \o ")">> ELSE <<>>)
                      \o (IF Known(prohibited) THEN <<"prohibited(" \o prohibited \o ")">> ELSE <<>>)
                      \o (IF Known(permitted) THEN <<"permitted(" \o permitted \o ")">> ELSE <<>>)
             info_list == ContentInfoList(Get(keco_data, "details", <<>>))
         IN  [item EXCEPT
                !.existing = IF Known(existing) THEN "O" ELSE @,
                !.existing_status = IF Known(existing) THEN existing ELSE @,
                !.toxic_class = ToxicClass(@, toxic, human_hazard),
                !.accident = IF Known(accident) THEN accident ELSE @,
                !.restricted = IF reg_list # <<>> THEN JoinWith(", ", reg_list) ELSE @,
                !.priority = IF Known(priority) THEN priority ELSE @,
                !.registration_target = IF Known(reg_existing) THEN reg_existing ELSE @,
                !.content_info = IF info_list # <<>>
                                 THEN JoinWith("; ", SubSeq(info_list, 1, Min(2, Len(info_list))))
                                 ELSE @]

\* the PRTR step writing whatever a status carries
MgmtApplyPrtrUnconditional(item, prtr_status) ==
    IF ~IsNoDict(prtr_status)
    THEN [item EXCEPT !.prtr_group = Get(prtr_status, "group", "-"),
                      !.prtr_threshold = Get(prtr_status, "threshold", "-")]
    ELSE item

MgmtApplyPrtr(item, prtr_status) ==
    IF ~IsNoDict(prtr_status) /\ Get(prtr_status, "applies", PyNone) = "O"
    THEN [item EXCEPT !.prtr_group = Get(prtr_status, "group", "-"),
                      !.prtr_threshold = Get(prtr_status, "threshold", "-")]
    ELSE item

mgmt_create_inventory_item(chem_name, cas_no, kosha_data, keco_data, prtr_status) ==
    MgmtApplyPrtr(
        MgmtApplyKeco(
            MgmtApplyKosha(MgmtDefaults(chem_name, cas_no), chem_name, kosha_data),
            keco_data),
        prtr_status)

(***************************************************************************)
(* pages/2_Inventory.py (the "inventory" page)                             *)
(* Tokens: "Group 1", "Group 2A", "Group 2B" as written; category1 =       *)
(* gubun1, category2 = gubun2; the returned marks group1_confirmed =       *)
(* 1gun(hwagin), group2A_probable, group2B_possible, group1, group2,       *)
(* "O", triangle.                                                          *)
(***************************************************************************)
\* core.kosha_api and core.prtr_db imported
PAGE_KOSHA_AVAILABLE == TRUE

\* the page's get_chemical_info: returns <<data, error>>
PageQueryResult(result) ==
    IF IsRaised(result) THEN <<NoDict, "api_error">>          \* except Exception
    ELSE IF Get(result, "success", FALSE) THEN <<result, PyNone>>
    ELSE <<NoDict, Get(result, "error", "lookup_failed")>>

page_get_chemical_info(cas_no, https) ==
    IF ~PAGE_KOSHA_AVAILABLE THEN <<NoDict, "no_kosha_module">>
    ELSE PageQueryResult(get_full_msds_data(cas_no, https))

\* the value the loop over the GHS lines returns: the first line that names
\* the hazard and a category decides
RECURSIVE GhsMark(_, _, _, _)
GhsMark(ghs, hazards, first, second) ==
    IF ghs = <<>> THEN Dash
    ELSE IF (\E h \in hazards : In(h, Head(ghs)))
            /\ (\E c \in first.keywords : In(c, Head(ghs)))
    THEN first.mark
    ELSE IF (\E h \in hazards : In(h, Head(ghs))) /\ In("category2", Head(ghs))
    THEN second
    ELSE GhsMark(Tail(ghs), hazards, first, second)

GhsLines(kosha_data) ==
    Get(Get(kosha_data, "hazard_classification", NoDict), "ghs_classification", <<>>)

CarcinogenicityOf(iarc, ghs) ==
    IF In("Group 1", iarc) THEN <<"group1_confirmed">>
    ELSE IF In("Group 2A", iarc) THEN <<"group2A_probable">>
    ELSE IF In("Group 2B", iarc) THEN <<"group2B_possible">>
    ELSE IF iarc # <<>> /\ iarc # Dash THEN Slice(iarc, 10)
    ELSE GhsMark(ghs, {"carcinogenicity"},
                 [keywords |-> {"category1", "1A", "1B"}, mark |-> <<"group1">>], <<"group2">>)

extract_carcinogenicity(kosha_data) ==
    IF IsNoDict(kosha_data) THEN Dash
    ELSE CarcinogenicityOf(Get(Get(kosha_data, "toxicity_info", NoDict), "IARC", Dash),
                           GhsLines(kosha_data))

extract_mutagenicity(kosha_data) ==
    IF IsNoDict(kosha_data) THEN Dash
    ELSE GhsMark(GhsLines(kosha_data), {"mutagenicity", "germ_cell_mutation"},
                 [keywords |-> {"category1"}, mark |-> <<"O">>], <<"triangle">>)

extract_reproductive_toxicity(kosha_data) ==
    IF IsNoDict(kosha_data) THEN Dash
    ELSE GhsMark(GhsLines(kosha_data), {"reproductive_toxicity"},
                 [keywords |-> {"category1"}, mark |-> <<"O">>], <<"triangle">>)

PageDefaults(chem_name, cas_no) ==
    [process |-> "", product |-> "", chem_name |-> chem_name, alias |-> "",
     cas_no |-> cas_no, content |-> "",
     carcinogenicity |-> Dash, mutagenicity |-> Dash, reproductive |-> Dash, twa |-> Dash,
     work_measure |-> "X", special_health |-> "X", managed |-> "X", special_managed |-> "X",
     hazmat_class |-> "-", hazmat_quantity |-> "-", hazmat_grade |-> "-",
     toxic |-> "X", accident |-> "X", restricted |-> "-",
     prtr_group |-> "-", prtr_threshold |-> "-"]

\* regs.get(key) and regs.get(key) != '-'
KnownText(regs, key) == key \in DOMAIN regs /\ regs[key] # <<>> /\ regs[key] # Dash

PageApplyRegs(item, regs) ==
    [item EXCEPT
        !.work_measure = Get(regs, "work_measure", "X"),
        !.special_health = Get(regs, "special_health", "X"),
        !.managed = Get(regs, "managed", "X"),
        !.special_managed = Get(regs, "special_managed", "X"),
        !.toxic = IF KnownText(regs, "toxic") THEN "O" ELSE @,
        !.accident = IF KnownText(regs, "accident") THEN "O" ELSE @]

PageApplyKosha(item, chem_name, kosha_data) ==
    IF IsNoDict(kosha_data) THEN item
    ELSE PageApplyRegs(
            [item EXCEPT
                !.chem_name = PyOr(Get(kosha_data, "name_kor", chem_name), chem_name),
                !.carcinogenicity = extract_carcinogenicity(kosha_data),
                !.mutagenicity = extract_mutagenicity(kosha_data),
                !.reproductive = extract_reproductive_toxicity(kosha_data),
                !.twa = Get(Get(kosha_data, "exposure_limits", NoDict), "TWA", Dash)],
            Get(kosha_data, "legal_regulations", NoDict))

PageApplyPrtr(item, prtr_status) ==
    IF ~IsNoDict(prtr_status) /\ Get(prtr_status, "applies", PyNone) = "O"
    THEN [item EXCEPT !.prtr_group = Get(prtr_status, "group", "-"),
                      !.prtr_threshold = Get(prtr_status, "threshold", "-")]
    ELSE item

create_inventory_item(chem_name, cas_no, kosha_data, prtr_status) ==
    PageApplyPrtr(PageApplyKosha(PageDefaults(chem_name, cas_no), chem_name, kosha_data),
                  prtr_status)

(***************************************************************************)
(* The session: st.session_state of the inventory pages                    *)
(***************************************************************************)
VARIABLES
    inventory,        \* st.session_state.inventory: the list of items
    processed_rows,   \* st.session_state.processed_rows: the batch cursor
    df,               \* the CAS column of the uploaded sheet, <<>> with no file
    notice,           \* what the last handler reported to the user
    invoked,          \* the library call under examination and its arguments
    returned,         \* what that call returned
    stored,           \* the rows of the company's inventory file on disk
    session,          \* each browser session's run of the emission page
    msds_data         \* st.session_state.msds_data: the MSDS draft

invVars == <<inventory, processed_rows, df, notice>>
callVars == <<invoked, returned>>
appVars == <<stored, session, msds_data>>
vars == <<inventory, processed_rows, df, notice, invoked, returned, appVars>>

\* no library call is under examination
NoCall == /\ invoked = [fn |-> "none"]
          /\ returned = [fn |-> "none"]

MaxRows == 3          \* rows of an uploaded sheet
MaxInventory == 2     \* items the session holds in the model
MaxListed == 3        \* items single registrations may bring the list to
BatchSize == 2        \* the batch size chosen in the number input

\* a spreadsheet cell: empty (None), a float NaN, or a text
NoneCell == [kind |-> "none"]
NanCell == [kind |-> "nan"]
TextCell(t) == [kind |-> "text", text |-> t]

\* str(cell)
Str(cell) ==
    CASE cell.kind = "none" -> <<"None">>
      [] cell.kind = "nan" -> <<"nan">>
      [] OTHER -> cell.text

FileCells ==
    {NoneCell, NanCell, TextCell(<<" ">>), TextCell(CasAcetone), TextCell(CasUnknown)}
Files == UNION {[1..n -> FileCells] : n \in 1..MaxRows}

\* the exchanges the environment can answer a page's lookup with
PageHttpKinds == {"timeout", "malformed", "answer"}

\* the exchanges the environment answers a lookup of the inventory page with:
\* all seven arrive, the search fails, or the search arrives and no detail does
PageExchanges ==
    { [i \in 1..7 |-> "answer"],
      [i \in 1..7 |-> "timeout"],
      [i \in 1..7 |-> IF i = 1 THEN "answer" ELSE "malformed"] }

\* what the user can type into the CAS number box
CasInputs == {<<>>, CasAcetone, CasUnknown, <<" ">> \o CasAcetone}

\* The lookups are functions of their arguments and of the exchanges, and the
\* pages make them with the few arguments above: the values are tabulated.
KoshaLookups ==
    [cas \in CasInputs, call \in KoshaCalls |-> query_chemical_info(cas, call)[1]]
KecoLookups ==
    [cas \in CasInputs, http \in PageHttpKinds |-> get_chemical_regulations(cas, http)]
PageLookups ==
    [cas \in {Strip(c) : c \in CasInputs}, https \in PageExchanges |->
        page_get_chemical_info(cas, https)[1]]

NoNotice == [kind |-> "none", success |-> 0, skip |-> 0]
Notice(kind) == [kind |-> kind, success |-> 0, skip |-> 0]

\* cas = str(cas_val).strip() if cas_val is not None and
\*       str(cas_val).strip() not in ['', 'None', 'nan'] else ''
BatchCas(cas_val) ==
    IF cas_val.kind # "none" /\ Strip(Str(cas_val)) \notin {<<>>, <<"None">>, <<"nan">>}
    THEN Strip(Str(cas_val)) ELSE <<>>

\* the loop body past the lookups: "raise" is an exception reaching the
\* loop's except clause, "success" an item built and appended
RowItem(cas, kosha_data, prtr_status, keco_data) ==
    IF IsRaised(keco_data) THEN [kind |-> "raise"]
    ELSE [kind |-> "success",
          item |-> mgmt_create_inventory_item("", cas, kosha_data, keco_data, prtr_status)]

\* a loop body that registers a row without a CAS number as well
RowOutcomeNoSkip(cas, call, http) ==
    IF cas = <<>> THEN RowItem(cas, NoDict, NoDict, NoDict)
    ELSE RowItem(cas,
                 IF KOSHA_AVAILABLE THEN KoshaLookups[cas, call] ELSE NoDict,
                 IF KOSHA_AVAILABLE THEN check_prtr_status(cas) ELSE NoDict,
                 IF KECO_AVAILABLE THEN KecoLookups[cas, http] ELSE NoDict)

\* the loop body for a row whose CAS cell reads `cas`
RowOutcome(cas, call, http) ==
    IF cas = <<>> THEN [kind |-> "skip"]
    ELSE RowItem(cas,
                 IF KOSHA_AVAILABLE THEN KoshaLookups[cas, call] ELSE NoDict,
                 IF KOSHA_AVAILABLE THEN check_prtr_status(cas) ELSE NoDict,
                 IF KECO_AVAILABLE THEN KecoLookups[cas, http] ELSE NoDict)

BatchOutcomes(batch_df, calls, https) ==
    [i \in 1..Len(batch_df) |-> RowOutcome(BatchCas(batch_df[i]), calls[i], https[i])]

\* the registry calls of the loop body for a row, in order: query_chemical_info
\* (get_chemical_info) when KOSHA is imported, then get_chemical_regulations
\* when KECO is; the loop holds no time.sleep
RowTrace(cas) ==
    IF cas = <<>> THEN <<>>
    ELSE (IF KOSHA_AVAILABLE THEN << "get_chemical_info" >> ELSE <<>>)
         \o (IF KECO_AVAILABLE THEN << "chemSbstnList" >> ELSE <<>>)

RECURSIVE BatchLoopTrace(_)
BatchLoopTrace(batch_df) ==
    IF batch_df = <<>> THEN <<>>
    ELSE RowTrace(BatchCas(Head(batch_df))) \o BatchLoopTrace(Tail(batch_df))

\* the rows the loop completes: all of them, or those before the first raise
IsRaise(o) == o.kind = "raise"
IsSuccess(o) == o.kind = "success"
IsSkip(o) == o.kind = "skip"
Completed(outcomes) ==
    IF \E i \in 1..Len(outcomes) : IsRaise(outcomes[i])
    THEN SubSeq(outcomes, 1, Leftmost({i \in 1..Len(outcomes) : IsRaise(outcomes[i])}) - 1)
    ELSE outcomes
ItemsOf(outcomes) == [i \in 1..Len(outcomes) |-> outcomes[i].item]
Appended(outcomes) == ItemsOf(SelectSeq(Completed(outcomes), IsSuccess))

\* ---- the state outside the inventory session ------------------------------
Sessions == {1, 2}       \* two browser sessions on the same company

NoAmount == -1           \* None in a numeric column

NoFile == [exists |-> FALSE, rows |-> <<>>]

NoResult == [chemical |-> "", amount |-> NoAmount, emission |-> NoAmount, method |-> ""]

DefaultWidgets ==
    [chemical |-> "", method |-> "mass_balance", first |-> 0, second |-> 0, third |-> 0]

FreshSession == [widgets |-> DefaultWidgets, shown |-> NoResult, buttons |-> {}, saved |-> <<>>]

\* the empty MSDS draft
NoDraft == [section3 |-> <<>>, section8 |-> <<>>]

AppInit ==
    /\ stored = NoFile
    /\ session = [s \in Sessions |-> FreshSession]
    /\ msds_data = NoDraft

InvInit ==
    /\ inventory = <<>>
    /\ processed_rows = 0
    /\ df = <<>>
    /\ notice = NoNotice
    /\ NoCall
    /\ AppInit

\* st.file_uploader: a sheet is chosen; processed_rows is left as it is
UploadFile(file) ==
    /\ df = <<>>
    /\ df' = file
    /\ notice' = NoNotice
    /\ UNCHANGED <<inventory, processed_rows, callVars, appVars>>

\* st.file_uploader: the sheet is taken away (replacing a sheet is RemoveFile,
\* then UploadFile); processed_rows is left as it is
RemoveFile ==
    /\ df # <<>>
    /\ df' = <<>>
    /\ notice' = NoNotice
    /\ UNCHANGED <<inventory, processed_rows, callVars, appVars>>

\* the end of the button handler, given the loop's row outcomes
BatchFinish(outcomes, end_idx) ==
    /\ inventory' = inventory \o Appended(outcomes)
    /\ IF \E i \in 1..Len(outcomes) : IsRaise(outcomes[i])
       THEN /\ processed_rows' = processed_rows                \* st.stop()
            /\ notice' = [kind |-> "error",
                          success |-> Len(SelectSeq(Completed(outcomes), IsSuccess)),
                          skip |-> Len(SelectSeq(Completed(outcomes), IsSkip))]
       ELSE /\ processed_rows' = IF Len(df) - end_idx > 0 THEN end_idx ELSE 0
            /\ notice' = [kind |-> IF Len(df) - end_idx > 0 THEN "batch_done" ELSE "all_done",
                          success |-> Len(SelectSeq(outcomes, IsSuccess)),
                          skip |-> Len(SelectSeq(outcomes, IsSkip))]

BatchEnd == Min(processed_rows + BatchSize, Len(df))
BatchDf == SubSeq(df, processed_rows + 1, BatchEnd)

\* tab1, the "register the next n rows" button
NextBatch ==
    /\ df # <<>>
    /\ Len(df) - processed_rows # 0                         \* disabled=(remaining == 0)
    /\ Len(inventory) + Len(BatchDf) <= MaxInventory
    /\ \E calls \in [1..Len(BatchDf) -> MadeKoshaCalls],
          https \in [1..Len(BatchDf) -> PageHttpKinds] :
          \E outcomes \in {BatchOutcomes(BatchDf, calls, https)} :
              BatchFinish(outcomes, BatchEnd)
    /\ UNCHANGED <<df, callVars, appVars>>

\* tab1, the "start over" button
RestartFromBeginning ==
    /\ df # <<>>
    /\ processed_rows' = 0
    /\ inventory' = <<>>
    /\ notice' = NoNotice
    /\ UNCHANGED <<df, callVars, appVars>>

CasColumn(inv) == [i \in 1..Len(inv) |-> inv[i].cas_no]

\* the handler past the lookups
RegisterLookedUp(cas, kosha_data, prtr_status, keco_data) ==
    IF IsNoDict(kosha_data) /\ (IsNoDict(keco_data) \/ ~Get(keco_data, "success", FALSE))
    THEN /\ notice' = Notice("lookup_failed")
         /\ UNCHANGED inventory
    ELSE IF Strip(cas) \notin Range(CasColumn(inventory))
    THEN /\ inventory' = Append(inventory,
                mgmt_create_inventory_item(
                    IF ~IsNoDict(kosha_data)
                    THEN PyOr(Get(kosha_data, "chemNmKr", ""), Get(kosha_data, "chemNmEn", ""))
                    ELSE IF ~IsNoDict(keco_data) THEN Get(keco_data, "chemNmKr", "") ELSE "",
                    cas, kosha_data, keco_data, prtr_status))
         /\ notice' = Notice("registered")
    ELSE /\ notice' = Notice("duplicate")
         /\ UNCHANGED inventory

\* tab2, the "look up and register" button
MgmtRegister(cas, call, http) ==
    /\ Len(inventory) < MaxListed
    /\ IF cas = <<>>
       THEN /\ notice' = Notice("no_cas")
            /\ UNCHANGED inventory
       ELSE RegisterLookedUp(cas,
                             KoshaLookups[cas, call],
                             check_prtr_status(cas),
                             IF KECO_AVAILABLE THEN KecoLookups[cas, http] ELSE NoDict)
    /\ UNCHANGED <<processed_rows, df, callVars, appVars>>

\* pages/2_Inventory.py, the handler past the lookups
PageRegisterLookedUp(cas, kosha_data, prtr_status) ==
    IF IsNoDict(kosha_data)
    THEN /\ notice' = Notice("lookup_failed")
         /\ UNCHANGED inventory
    ELSE IF cas \in Range(CasColumn(inventory))
    THEN /\ notice' = Notice("duplicate")
         /\ UNCHANGED inventory
    ELSE /\ inventory' = Append(inventory,
                create_inventory_item(Get(kosha_data, "name_kor", ""), cas, kosha_data, prtr_status))
         /\ notice' = Notice("registered")

\* pages/2_Inventory.py, tab1, the "look up at KOSHA and register" button
PageRegister(cas_input, https) ==
    /\ Len(inventory) < MaxListed
    /\ IF cas_input = <<>>
       THEN /\ notice' = Notice("no_cas")
            /\ UNCHANGED inventory
       ELSE PageRegisterLookedUp(Strip(cas_input),
                                 PageLookups[Strip(cas_input), https],
                                 IF PAGE_KOSHA_AVAILABLE THEN check_prtr_status(Strip(cas_input))
                                 ELSE NoDict)
    /\ UNCHANGED <<processed_rows, df, callVars, appVars>>

\* a deletion by value: every row with the CAS number of the selected row goes
DeleteRowByCas(del_idx) ==
    /\ del_idx \in 1..Len(inventory)
    /\ inventory' = SelectSeq(inventory, LAMBDA item : item.cas_no # inventory[del_idx].cas_no)
    /\ notice' = NoNotice
    /\ UNCHANGED <<processed_rows, df, callVars, appVars>>

\* the list tab, the delete button: inventory.pop(del_idx)
DeleteRow(del_idx) ==
    /\ del_idx \in 1..Len(inventory)
    /\ inventory' = [i \in 1..(Len(inventory) - 1) |->
                        IF i < del_idx THEN inventory[i] ELSE inventory[i + 1]]
    /\ notice' = NoNotice
    /\ UNCHANGED <<processed_rows, df, callVars, appVars>>

\* the sidebar, the "delete everything" button
ClearAll ==
    /\ inventory' = <<>>
    /\ notice' = NoNotice
    /\ UNCHANGED <<processed_rows, df, callVars, appVars>>

InvNext ==
    \/ \E file \in Files : UploadFile(file)
    \/ RemoveFile
    \/ NextBatch
    \/ RestartFromBeginning
    \/ \E cas \in CasInputs, call \in MadeKoshaCalls, http \in PageHttpKinds :
          MgmtRegister(cas, call, http)
    \/ \E cas_input \in CasInputs, https \in PageExchanges : PageRegister(cas_input, https)
    \/ \E del_idx \in 1..MaxListed : DeleteRow(del_idx)
    \/ ClearAll

Spec == InvInit /\ [][InvNext]_vars

(***************************************************************************)
(* Properties of the session                                               *)
(***************************************************************************)
\* the number of rows of an inventory that carry a CAS number
Rows(inv, cas_no) == Cardinality({i \in 1..Len(inv) : inv[i].cas_no = cas_no})

\* C1: after any sequence of single registrations, batch clicks, deletions,
\* clear-all and restart, the inventory holds at most one row per CAS number.
\* The batch loop appends without looking at the rows already there, so the
\* statement is violated.
C1_OneRowPerCas ==
    \A i, j \in 1..Len(inventory) :
        inventory[i].cas_no = inventory[j].cas_no => i = j

\* C2: registering a CAS number that already has a row leaves the inventory as
\* it is: no step adds a row for a CAS number that has one.  The batch loop
\* adds the second occurrence, so the statement is violated.
C2_DuplicateLeavesInventory ==
    [][\A i \in 1..Len(inventory') :
          Rows(inventory', inventory'[i].cas_no)
              <= Max(1, Rows(inventory, inventory'[i].cas_no))]_vars

(***************************************************************************)
(* The registry clients called on their own: a call is made with arguments *)
(* and exchanges drawn from small sets, and what it returns is recorded.   *)
(***************************************************************************)
MaxBatch == 2         \* CAS numbers handed to one batch_query

\* a behaviour examines one call, made in a fresh process
Fresh == invoked.fn = "none" /\ inventory = <<>> /\ df = <<>> /\ processed_rows = 0

\* what a call that returns a dict, or None, left behind
Returned(fn, r) == [fn |-> fn, raised |-> IsRaised(r), value |-> r]

LookupCas == {CasAcetone, CasUnknown, <<" ">> \o CasAcetone}

\* the exchanges of one get_full_msds_data: the search ends in any way, each
\* detail request times out or is answered
DetailKinds == {"timeout", "answer"}
LookupExchanges == {<<k>> \o d : k \in HttpKinds, d \in [1..6 -> DetailKinds]}

\* ---- the requests a call issues, in the order of its requests.get calls ----
\* a search that asks again when no answer came
search_by_cas_requests_retry(cas_no, http) ==
    IF http = "answer" THEN << "chemlist" >> ELSE << "chemlist", "chemlist" >>

\* search_by_cas: one requests.get in the try block, outside any loop
search_by_cas_requests(cas_no, http) == << "chemlist" >>

\* the six detail functions, one requests.get each
DetailRequests ==
    << "chemdetail02", "chemdetail08", "chemdetail09", "chemdetail11", "chemdetail12",
       "chemdetail15" >>

\* get_full_msds_data: the search, then, past `if not search_result: return`,
\* the six details
get_full_msds_data_requests(cas_no, https) ==
    search_by_cas_requests(Strip(cas_no), https[1])
    \o (IF IsNoDict(search_by_cas(Strip(cas_no), https[1])) THEN <<>> ELSE DetailRequests)

\* search_chemical_by_cas: one requests.get in the try block
search_chemical_by_cas_requests(cas_no, http) == << "chemSbstnList" >>

\* get_chemical_regulations calls search_chemical_by_cas once
get_chemical_regulations_requests(cas_no, http) == search_chemical_by_cas_requests(cas_no, http)

ReturnedWith(fn, r, requests) ==
    [fn |-> fn, raised |-> IsRaised(r), value |-> r, requests |-> requests]

CallSearchByCas(cas_no, http) ==
    /\ Fresh
    /\ invoked' = [fn |-> "search_by_cas", cas_no |-> cas_no, http |-> http]
    /\ returned' = ReturnedWith("search_by_cas", search_by_cas(cas_no, http),
                                search_by_cas_requests(cas_no, http))
    /\ UNCHANGED <<invVars, appVars>>

CallGetFullMsdsData(cas_no, https) ==
    /\ Fresh
    /\ invoked' = [fn |-> "get_full_msds_data", cas_no |-> cas_no, http |-> https[1], https |-> https]
    /\ returned' = ReturnedWith("get_full_msds_data", get_full_msds_data(cas_no, https),
                                get_full_msds_data_requests(cas_no, https))
    /\ UNCHANGED <<invVars, appVars>>

CallSearchChemicalByCas(cas_no, http) ==
    /\ Fresh
    /\ invoked' = [fn |-> "search_chemical_by_cas", cas_no |-> cas_no, http |-> http]
    /\ returned' = ReturnedWith("search_chemical_by_cas", search_chemical_by_cas(cas_no, http),
                                search_chemical_by_cas_requests(cas_no, http))
    /\ UNCHANGED <<invVars, appVars>>

CallGetChemicalRegulations(cas_no, http) ==
    /\ Fresh
    /\ invoked' = [fn |-> "get_chemical_regulations", cas_no |-> cas_no, http |-> http]
    /\ returned' = ReturnedWith("get_chemical_regulations", get_chemical_regulations(cas_no, http),
                                get_chemical_regulations_requests(cas_no, http))
    /\ UNCHANGED <<invVars, appVars>>

LookupNext ==
    \/ Fresh /\ \E cas_no \in LookupCas, http \in HttpKinds : CallSearchByCas(cas_no, http)
    \/ Fresh /\ \E cas_no \in LookupCas, https \in LookupExchanges : CallGetFullMsdsData(cas_no, https)
    \/ Fresh /\ \E cas_no \in LookupCas, http \in HttpKinds : CallSearchChemicalByCas(cas_no, http)
    \/ Fresh /\ \E cas_no \in LookupCas, http \in HttpKinds : CallGetChemicalRegulations(cas_no, http)

SpecLookup == InvInit /\ [][LookupNext]_vars

\* the registry has nothing to answer for the search word
KoshaZeroResults(cas_no) == KoshaList(Strip(cas_no)) = <<>>
KecoZeroResults(cas_no) == KecoItems(cas_no) = <<>>
\* the exchange brings no answer: a network or timeout error, an HTTP error
\* status, a body that does not parse or is no document of the registry
NoAnswer(http) == http \in {"timeout", "http_error", "malformed", "not_object"}

\* C3: a lookup by CAS number never raises to its caller, and a network or
\* timeout error, a malformed body and a zero-result reply each give a "not
\* found" result: None from search_by_cas, a record with success = FALSE from
\* get_full_msds_data, search_chemical_by_cas and get_chemical_regulations.
C3_LookupNeverRaises ==
    /\ invoked.fn # "none" => ~returned.raised
    /\ invoked.fn = "search_by_cas"
           /\ (NoAnswer(invoked.http) \/ KoshaZeroResults(invoked.cas_no))
       => IsNoDict(returned.value)
    /\ invoked.fn = "get_full_msds_data"
           /\ (NoAnswer(invoked.http) \/ KoshaZeroResults(invoked.cas_no))
       => ~IsNoDict(returned.value) /\ returned.value.success = FALSE
    /\ invoked.fn \in {"search_chemical_by_cas", "get_chemical_regulations"}
           /\ (NoAnswer(invoked.http) \/ KecoZeroResults(invoked.cas_no))
       => ~IsNoDict(returned.value) /\ returned.value.success = FALSE

\* a lookup whose exchange timed out has returned its "not found" record
C3_Witness ==
    /\ invoked.fn = "get_full_msds_data"
    /\ invoked.cas_no = CasAcetone
    /\ invoked.http = "timeout"
    /\ ~returned.raised
    /\ returned.value.success = FALSE

(***************************************************************************)
(* Batch processing: the batch button of the management page, and          *)
(* core batch_query called on its own.                                     *)
(***************************************************************************)
\* the exchanges of one lookup of a batch_query: all arrive, the search times
\* out or brings an unparsable body, or the search arrives and no detail does
BatchExchanges ==
    PageExchanges \cup {[i \in 1..7 |-> IF i = 1 THEN "malformed" ELSE "answer"]}

CasLists == UNION {[1..n -> {CasAcetone, CasUnknown}] : n \in 0..MaxBatch}

\* ---- the requests and the time.sleep(API_DELAY) calls of a call, in order ----
\* get_full_msds_data: the search; past `if not search_result: return`, a
\* sleep before each of the six details
get_full_msds_data_trace(cas_no, https) ==
    << "chemlist" >>
    \o (IF IsNoDict(search_by_cas(Strip(cas_no), https[1])) THEN <<>>
        ELSE << "sleep", "chemdetail02", "sleep", "chemdetail08", "sleep", "chemdetail09",
                "sleep", "chemdetail11", "sleep", "chemdetail12", "sleep", "chemdetail15" >>)

\* a loop that sleeps after every element, the last included
RECURSIVE batch_query_trace_always(_, _)
batch_query_trace_always(cas_list, exchanges) ==
    IF cas_list = <<>> THEN <<>>
    ELSE get_full_msds_data_trace(Head(cas_list), Head(exchanges)) \o << "sleep" >>
         \o batch_query_trace_always(Tail(cas_list), Tail(exchanges))

\* batch_query: for idx, cas_no: get_full_msds_data(cas_no);
\* if idx < total - 1: time.sleep(API_DELAY)
RECURSIVE batch_query_trace(_, _)
batch_query_trace(cas_list, exchanges) ==
    IF cas_list = <<>> THEN <<>>
    ELSE get_full_msds_data_trace(Head(cas_list), Head(exchanges))
         \o (IF Len(cas_list) > 1 THEN << "sleep" >> ELSE <<>>)
         \o batch_query_trace(Tail(cas_list), Tail(exchanges))

BatchReturned(results) ==
    [fn |-> "batch_query", raised |-> BatchRaises(results),
     value |-> IF BatchRaises(results) THEN <<>> ELSE results]

CallBatchQuery(cas_list, exchanges) ==
    /\ Fresh
    /\ invoked' = [fn |-> "batch_query", cas_list |-> cas_list, exchanges |-> exchanges]
    /\ returned' = BatchReturned(batch_query(cas_list, exchanges))
                      @@ [trace |-> batch_query_trace(cas_list, exchanges)]
    /\ UNCHANGED <<invVars, appVars>>

BatchNext ==
    \/ invoked.fn = "none" /\ \E file \in Files : UploadFile(file)
    \/ invoked.fn = "none" /\ RemoveFile
    \/ invoked.fn = "none" /\ NextBatch
    \/ invoked.fn = "none" /\ RestartFromBeginning
    \/ \E cas_list \in CasLists :
          \E exchanges \in [1..Len(cas_list) -> BatchExchanges] :
              CallBatchQuery(cas_list, exchanges)

SpecBatch == InvInit /\ [][BatchNext]_vars

\* the rows a click of the batch button has appended
NewRows == (Len(inventory) + 1)..Len(inventory')

\* the lookup of element idx of a batch_query found nothing
ItemFailed(idx) ==
    \/ invoked.exchanges[idx][1] # "answer"
    \/ KoshaZeroResults(invoked.cas_list[idx])

\* C4: a failed lookup never aborts a batch.  A click of the batch button ends
\* with its count summary, never with the fatal stop; every row of the batch is
\* counted as registered or skipped; every row with a CAS value has its item
\* appended, in order; and a row none of whose lookups found anything is kept
\* with every compliance field at its default.  batch_query does not raise and
\* returns one result per CAS number, success = FALSE for exactly the failed ones.
C4_PageBatchGoesOn ==
    NextBatch =>
        /\ notice'.kind \in {"batch_done", "all_done"}
        /\ notice'.success + notice'.skip = Len(BatchDf)
        /\ Len(inventory') = Len(inventory) + notice'.success
        /\ CasColumn(SubSeq(inventory', Len(inventory) + 1, Len(inventory')))
              = SelectSeq([k \in 1..Len(BatchDf) |-> BatchCas(BatchDf[k])], LAMBDA c : c # <<>>)
        /\ \A i \in NewRows :
              inventory'[i].cas_no = CasUnknown => inventory'[i] = MgmtDefaults("", CasUnknown)

C4_BatchQueryGoesOn ==
    invoked.fn = "batch_query" =>
        /\ ~returned.raised
        /\ Len(returned.value) = Len(invoked.cas_list)
        /\ \A idx \in 1..Len(invoked.cas_list) :
              /\ returned.value[idx].cas_no = Strip(invoked.cas_list[idx])
              /\ returned.value[idx].success = ~ItemFailed(idx)

C4_FailedLookupNeverAborts == [][C4_PageBatchGoesOn]_vars /\ []C4_BatchQueryGoesOn

\* a batch button click has registered a row whose lookups all failed and,
\* after it, a row whose lookups answered, and has ended with its summary
C4_Witness ==
    /\ notice.kind = "all_done"
    /\ notice.success = 2
    /\ Len(inventory) = 2
    /\ inventory[1] = MgmtDefaults("", CasUnknown)
    /\ inventory[2].cas_no = CasAcetone
    /\ inventory[2].existing = "O"

(***************************************************************************)
(* create_inventory_item called on its own                                 *)
(***************************************************************************)
\* what a source can hold for a field: the unknown marker, nothing, or a value
MergeValues == {"-", "", "O", "X"}

\* the KECO records: none, a failed lookup, and the successful ones with every
\* pair of values of the two keys that feed one field (toxic = yudok-muljil,
\* human_hazard = inche-yuhaeseong-muljil, a key the client may leave out)
KecoRecords ==
    {NoDict, [success |-> FALSE, error |-> "no_result"]}
    \cup {[success |-> TRUE, toxic |-> a, accident_preparedness |-> "-"] : a \in MergeValues}
    \cup {[success |-> TRUE, toxic |-> a, human_hazard |-> b, accident_preparedness |-> "O"] :
             a \in MergeValues, b \in MergeValues}

KoshaRecords ==
    {NoDict, KoshaInfo(CasAcetone),
     [success |-> TRUE, chemNmKr |-> "", chemNmEn |-> "Acetone", twa |-> "",
      workMeasure |-> "", hazmatClass |-> "class4"]}

\* the management page's check_prtr_status when core.prtr_db is not importable
fallback_check_prtr_status(cas) == [applies |-> "-", group |-> "-", threshold |-> "-"]

\* the name check_prtr_status on the management page: core.prtr_db's when the
\* import succeeded, the fallback otherwise
MgmtCheckPrtrStatus(cas, imported) ==
    IF imported THEN check_prtr_status(cas) ELSE fallback_check_prtr_status(cas)

\* prtr_substances.check_prtr_status: the table's answer with the substance's
\* name (muljilmyeong)
PrtrSubstance(cas_no) ==
    [applies |-> PrtrTable(cas_no).applies, group |-> PrtrTable(cas_no).group,
     threshold |-> PrtrTable(cas_no).threshold,
     name |-> IF cas_no = CasAcetone THEN "acetone" ELSE "-"]

\* kosha_api.check_prtr; target = daesang, quantity = gijunryang
check_prtr(cas_no, PRTR_AVAILABLE) ==
    IF PRTR_AVAILABLE
    THEN [target |-> PrtrSubstance(cas_no).applies, group |-> PrtrSubstance(cas_no).group,
          quantity |-> PrtrSubstance(cas_no).threshold, name |-> PrtrSubstance(cas_no).name]
    ELSE [target |-> "-", group |-> "-", quantity |-> "-", name |-> "-"]

PrtrRecords ==
    {NoDict, PrtrTable(CasAcetone), PrtrTable(CasUnknown),
     [applies |-> "X", group |-> "1", threshold |-> "1t"]}

CallMgmtCreateInventoryItem(kosha_data, keco_data, prtr_status) ==
    /\ Fresh
    /\ invoked' = [fn |-> "mgmt_create_inventory_item", kosha_data |-> kosha_data,
                   keco_data |-> keco_data, prtr_status |-> prtr_status]
    /\ returned' = Returned("mgmt_create_inventory_item",
                       mgmt_create_inventory_item("", CasAcetone, kosha_data, keco_data, prtr_status))
    /\ UNCHANGED <<invVars, appVars>>

CallCreateInventoryItem(https, prtr_status) ==
    /\ Fresh
    /\ invoked' = [fn |-> "create_inventory_item",
                   kosha_data |-> get_full_msds_data(CasAcetone, https),
                   prtr_status |-> prtr_status]
    /\ returned' = Returned("create_inventory_item",
                       create_inventory_item("", CasAcetone,
                                             get_full_msds_data(CasAcetone, https), prtr_status))
    /\ UNCHANGED <<invVars, appVars>>

\* the management page's lookup: prtr_status = check_prtr_status(cas), then the
\* row is built from it
CallCheckPrtrStatus(cas, imported) ==
    /\ Fresh
    /\ invoked' = [fn |-> "check_prtr_status", cas |-> cas, imported |-> imported]
    /\ returned' = [fn |-> "check_prtr_status",
                    raised |-> IsRaised(MgmtCheckPrtrStatus(cas, imported)),
                    value |-> MgmtCheckPrtrStatus(cas, imported),
                    item |-> mgmt_create_inventory_item(
                                 "", cas, NoDict, NoDict, MgmtCheckPrtrStatus(cas, imported))]
    /\ UNCHANGED <<invVars, appVars>>

CallCheckPrtr(cas_no, PRTR_AVAILABLE) ==
    /\ Fresh
    /\ invoked' = [fn |-> "check_prtr", cas |-> cas_no, imported |-> PRTR_AVAILABLE]
    /\ returned' = Returned("check_prtr", check_prtr(cas_no, PRTR_AVAILABLE))
    /\ UNCHANGED <<invVars, appVars>>

MergeNext ==
    \/ Fresh /\ \E kosha_data \in KoshaRecords, keco_data \in KecoRecords, prtr_status \in PrtrRecords :
          CallMgmtCreateInventoryItem(kosha_data, keco_data, prtr_status)
    \/ Fresh /\ \E https \in PageExchanges, prtr_status \in PrtrRecords :
          CallCreateInventoryItem(https, prtr_status)
    \/ Fresh /\ \E cas \in CasNumbers, imported \in BOOLEAN : CallCheckPrtrStatus(cas, imported)
    \/ Fresh /\ \E cas \in CasNumbers, available \in BOOLEAN : CallCheckPrtr(cas, available)

SpecMerge == InvInit /\ [][MergeNext]_vars

\* the first value of a list of sources that is not unknown, else the default
FirstKnown(values, default) ==
    IF \E i \in 1..Len(values) : Known(values[i])
    THEN values[Leftmost({i \in 1..Len(values) : Known(values[i])})]
    ELSE default

\* the fields each source alone feeds
KoshaFields ==
    {"twa", "work_measure", "special_health", "managed", "special_managed",
     "hazmat_class", "hazmat_quantity", "hazmat_grade"}
PageKoshaFields ==
    {"chem_name", "carcinogenicity", "mutagenicity", "reproductive", "twa", "work_measure",
     "special_health", "managed", "special_managed", "toxic", "accident"}

LegacyLegalDefaults ==
    [work_measure |-> "X", special_health |-> "X", managed |-> "X", special_managed |-> "X",
     toxic |-> NotApplicable, accident |-> NotApplicable,
     restricted_prohibited_permitted |-> NotApplicable, hazmat |-> NotApplicable]

\* the four keyword tests under the labor-law label
LegacyOshKeywords(result, detail) ==
    [result EXCEPT
        !.work_measure = IF In("work_measure", detail) \/ In("measure_target", detail)
                         THEN "O" ELSE @,
        !.special_health = IF In("special_health", detail) \/ In("health_exam", detail)
                           THEN "O" ELSE @,
        !.managed = IF In("managed", detail) THEN "O" ELSE @,
        !.special_managed = IF In("special_managed", detail) THEN "O" ELSE @]

\* if detail not in ['haedang-eopseum', 'jaryo-eopseum']: the two flags still 'X' become 'O'
LegacyOshAny(result, detail) ==
    IF detail \notin {NotApplicable, NoData}
    THEN [result EXCEPT
            !.work_measure = IF @ = "X" THEN "O" ELSE @,
            !.special_health = IF @ = "X" THEN "O" ELSE @]
    ELSE result

LegacyOsh(result, item) ==
    IF IsOshLabel(item.name_kor)
    THEN LegacyOshAny(LegacyOshKeywords(result, item.detail), item.detail)
    ELSE result

\* if 'yudok' in detail / elif 'sago-daebi' in detail / elif detail not in [...]
LegacyChem(result, item) ==
    IF In("hazardous_chemical", item.name_kor) \/ In("law_chem", item.name_kor)
       \/ In("toxic", item.name_kor)
    THEN IF In("toxic", item.detail) THEN [result EXCEPT !.toxic = Slice(item.detail, 30)]
         ELSE IF In("accident", item.detail)
         THEN [result EXCEPT !.accident = Slice(item.detail, 30)]
         ELSE IF item.detail \notin {NotApplicable, NoData}
         THEN [result EXCEPT !.toxic = Slice(item.detail, 30)]
         ELSE result
    ELSE result

LegacyRestricted(result, item) ==
    IF (In("restricted", item.name_kor) \/ In("prohibited", item.name_kor)
        \/ In("permitted", item.name_kor))
       /\ item.detail \notin {NotApplicable, NoData}
    THEN [result EXCEPT !.restricted_prohibited_permitted = Slice(item.detail, 30)]
    ELSE result

LegacyHazmat(result, item) ==
    IF In("hazmat", item.name_kor) /\ item.detail \notin {NotApplicable, NoData}
    THEN [result EXCEPT !.hazmat = Slice(item.detail, 40)]
    ELSE result

LegacyLegalStep(result, item) ==
    IF LegalSkips(item.detail) THEN result
    ELSE LegacyHazmat(LegacyRestricted(LegacyChem(LegacyOsh(result, item), item), item), item)

legacy_get_legal_regulations(http, items) ==
    Extract(LegacyLegalStep, LegacyLegalDefaults, RootItems(http, items))

(***************************************************************************)
(* The extractors, each called on the items one exchange brings back.      *)
(***************************************************************************)
MaxItems == 2         \* <item> elements of one answer

ExtractHttp == {"answer", "timeout", "malformed"}

LegalItems ==
    {Item(<<"law_osh", " ", "regulation">>, d) :
        d \in {<<"work_measure_target">>, <<"special_health">>, <<"managed_hazardous">>,
               <<"special_managed_substance">>, <<"exposure_standard_set">>,
               NotApplicable, Dash, <<>>}}
    \cup {Item(<<"law_osh_short">>, <<"work_measure">>),
          Item(<<"law_chem", " ", "regulation">>, <<"toxic">>),
          Item(<<"law_chem", " ", "regulation">>, <<"accident">>),
          Item(<<"law_hazmat", " ", "regulation">>, <<"class4", " ", "petroleum1">>),
          Item(<<"law_hazmat", " ", "regulation">>, <<"class4", " ", "alcohols">>),
          Item(<<"law_hazmat", " ", "regulation">>, NoData),
          Item(<<"law_waste", " ", "regulation">>, <<"designated_waste">>),
          Item(<<"law_waste", " ", "regulation">>, <<"waste_organic_solvent">>)}

ExposureItems ==
    {Item(<<"domestic", " ", "exposure_limit">>, d) :
        d \in {<<"TWA", ":", " ", "500", "ppm">>, <<"TWA", ":", " ", "200", "ppm">>,
               <<"STEL", ":", " ", "750", "ppm">>, <<"STEL", ":", " ", "1000", "ppm">>,
               <<"500", " ", "ppm">>, NoData, NotApplicable, Dash, <<>>}}
    \cup {Item(<<"ACGIH", " ", "standard">>, <<"TWA", ":", " ", "250", "ppm">>)}

ToxicityItems ==
    {Item(n, d) : n \in {<<"carcinogenicity">>, <<"IARC">>},
                  d \in {<<"category1A">>, <<"category2">>, NoData, NotApplicable, Dash, <<>>}}

HazardItems ==
    {Item(n, d) : n \in {<<"signal_word">>, <<"ghs_class">>},
                  d \in {<<"danger">>, <<"warning">>, NoData, NotApplicable, Dash, <<>>}}

Answers(S) == UNION {[1..n -> S] : n \in 0..MaxItems}

CallGetLegalRegulations(http, items) ==
    /\ Fresh
    /\ invoked' = [fn |-> "get_legal_regulations", http |-> http, items |-> items]
    /\ returned' = Returned("get_legal_regulations", get_legal_regulations(http, items))
    /\ UNCHANGED <<invVars, appVars>>

CallLegacyGetLegalRegulations(http, items) ==
    /\ Fresh
    /\ invoked' = [fn |-> "legacy_get_legal_regulations", http |-> http, items |-> items]
    /\ returned' = Returned("legacy_get_legal_regulations", legacy_get_legal_regulations(http, items))
    /\ UNCHANGED <<invVars, appVars>>

CallGetExposureLimits(http, items) ==
    /\ Fresh
    /\ invoked' = [fn |-> "get_exposure_limits", http |-> http, items |-> items]
    /\ returned' = Returned("get_exposure_limits", get_exposure_limits(http, items))
    /\ UNCHANGED <<invVars, appVars>>

CallGetToxicityInfo(http, items) ==
    /\ Fresh
    /\ invoked' = [fn |-> "get_toxicity_info", http |-> http, items |-> items]
    /\ returned' = Returned("get_toxicity_info", get_toxicity_info(http, items))
    /\ UNCHANGED <<invVars, appVars>>

CallGetHazardClassification(http, items) ==
    /\ Fresh
    /\ invoked' = [fn |-> "get_hazard_classification", http |-> http, items |-> items]
    /\ returned' = Returned("get_hazard_classification", get_hazard_classification(http, items))
    /\ UNCHANGED <<invVars, appVars>>

ExtractNext ==
    \/ Fresh /\ \E http \in ExtractHttp, items \in Answers(LegalItems) :
          CallGetLegalRegulations(http, items)
    \/ Fresh /\ \E http \in ExtractHttp, items \in Answers(LegalItems) :
          CallLegacyGetLegalRegulations(http, items)
    \/ Fresh /\ \E http \in ExtractHttp, items \in Answers(ExposureItems) :
          CallGetExposureLimits(http, items)
    \/ Fresh /\ \E http \in ExtractHttp, items \in Answers(ToxicityItems) :
          CallGetToxicityInfo(http, items)
    \/ Fresh /\ \E http \in ExtractHttp, items \in Answers(HazardItems) :
          CallGetHazardClassification(http, items)

SpecExtract == InvInit /\ [][ExtractNext]_vars

\* the items that arrived in the call under examination
Arrived == IF invoked.http = "answer" THEN invoked.items ELSE <<>>

\* a value that is empty or one of the no-data sentinels
IsSentinel(detail) == detail = <<>> \/ detail \in {NoData, NotApplicable, Dash}

\* the keyword of each labor-law flag
OshFlagKeyword ==
    [work_measure |-> "work_measure", special_health |-> "special_health",
     managed |-> "managed", special_managed |-> "special_managed"]

HasFlagItem(items, kw) ==
    \E i \in 1..Len(items) :
        /\ IsOshLabel(items[i].name_kor)
        /\ ~IsSentinel(items[i].detail)
        /\ In(kw, items[i].detail)

\* C6: in both copies of get_legal_regulations each labor-law flag
\* (work_measure, special_health, managed, special_managed) is 'O' exactly when
\* the record has an item whose label holds the labor-law name and whose
\* non-sentinel value holds the flag's keyword, and 'X' otherwise.
C6_LaborLawFlags ==
    invoked.fn \in {"get_legal_regulations", "legacy_get_legal_regulations"}
    => \A f \in DOMAIN OshFlagKeyword :
          returned.value[f] = IF HasFlagItem(Arrived, OshFlagKeyword[f]) THEN "O" ELSE "X"

\* the same statement for the copy of core/kosha_api.py alone
C6_CoreLaborLawFlags ==
    invoked.fn = "get_legal_regulations"
    => \A f \in DOMAIN OshFlagKeyword :
          returned.value[f] = IF HasFlagItem(Arrived, OshFlagKeyword[f]) THEN "O" ELSE "X"

Usable(item) == ~IsSentinel(item.detail)

ExtractorOf(fn, http, items) ==
    CASE fn = "get_legal_regulations" -> get_legal_regulations(http, items)
      [] fn = "legacy_get_legal_regulations" -> legacy_get_legal_regulations(http, items)
      [] fn = "get_exposure_limits" -> get_exposure_limits(http, items)
      [] fn = "get_toxicity_info" -> get_toxicity_info(http, items)
      [] fn = "get_hazard_classification" -> get_hazard_classification(http, items)

ExtractorNames ==
    {"get_legal_regulations", "legacy_get_legal_regulations", "get_exposure_limits",
     "get_toxicity_info", "get_hazard_classification"}

\* the fields of a result that hold a text (not a flag, not a list)
TextFields(fn) ==
    CASE fn = "get_legal_regulations" ->
            {"toxic", "permitted", "restricted", "prohibited", "accident", "hazmat", "waste"}
      [] fn = "legacy_get_legal_regulations" ->
            {"toxic", "accident", "restricted_prohibited_permitted", "hazmat"}
      [] fn = "get_exposure_limits" -> {"TWA", "STEL", "ceiling"}
      [] fn = "get_toxicity_info" -> {"carcinogenicity", "IARC"}
      [] fn = "get_hazard_classification" -> {"signal_word"}

\* C7: in every extractor an item whose value is empty or a no-data sentinel
\* changes no output field (the result is the result of the record without
\* such items), and no text field ever holds a sentinel text or an empty text
\* in place of its unknown marker '-'.
C7_SentinelChangesNothing ==
    invoked.fn \in ExtractorNames
    => /\ returned.value
            = ExtractorOf(invoked.fn, invoked.http, SelectSeq(invoked.items, Usable))
       /\ \A f \in TextFields(invoked.fn) :
             returned.value[f] \notin {NoData, NotApplicable, <<>>}

\* the value a field takes from the first item in record order that sets it,
\* and the default when no item sets it
Sets(Step(_, _), defaults, item, f) == Step(defaults, item)[f] # defaults[f]
FirstMatch(Step(_, _), defaults, items, f) ==
    IF \E i \in 1..Len(items) : Sets(Step, defaults, items[i], f)
    THEN Step(defaults,
              items[Leftmost({i \in 1..Len(items) : Sets(Step, defaults, items[i], f)})])[f]
    ELSE defaults[f]

\* C8: when a record holds several items matching the same label pattern the
\* field holds the value of the first of them in record order: hazmat and
\* waste of get_legal_regulations, TWA and STEL of get_exposure_limits, and
\* the fields of get_toxicity_info.
C8_FirstMatchWins ==
    /\ invoked.fn = "get_legal_regulations"
       => \A f \in {"hazmat", "waste"} :
             returned.value[f] = FirstMatch(LegalStep, LegalDefaults, Arrived, f)
    /\ invoked.fn = "get_exposure_limits"
       => \A f \in {"TWA", "STEL"} :
             returned.value[f] = FirstMatch(ExposureStep, ExposureDefaults, Arrived, f)
    /\ invoked.fn = "get_toxicity_info"
       => \A f \in {"carcinogenicity", "IARC"} :
             returned.value[f]
               = FirstMatch(ToxicityStep, ChainDefaults(ToxicityChain), Arrived, f)

(***************************************************************************)
(* chemical_inventory_app.py: IntegratedEmissionCalculator, and the quick  *)
(* calculator of pages/3_(chart)_emission.                                 *)
(*                                                                         *)
(* Columns: input = tuip-ryang(kg), recovery = hoesu-ryang(kg),            *)
(* destruction = pagoe-ryang(kg), activity = hwaldong-ryang,               *)
(* factor = baechul-gyesu(kg/unit), efficiency = bangji-siseol-hyoyul(%).  *)
(* Amounts are whole numbers.  The emission-factor amounts are carried in  *)
(* 1/100 kg, so that activity * factor * (1 - efficiency / 100) is the     *)
(* whole number activity * factor * (100 - efficiency).  The formula is    *)
(* linear in the factor, so a factor is a whole number of any fixed unit:  *)
(* with the factor in 1/1000 kg per unit (0.002 is 2) the amounts are in   *)
(* 1/100000 kg (3.0 kg is 300000).                                         *)
(***************************************************************************)
NumCell(n) == [kind |-> "num", n |-> n]

\* pd.read_excel(xls, sheet).fillna(0)
FillNaCell(cell) == IF cell.kind = "nan" THEN 0 ELSE cell.n
fillna(sheet) == [i \in 1..Len(sheet) |-> [c \in DOMAIN sheet[i] |-> FillNaCell(sheet[i][c])]]

\* Series.sum()
RECURSIVE Sum(_)
Sum(column) == IF column = <<>> THEN 0 ELSE Head(column) + Sum(Tail(column))

\* (input - recovery - destruction).apply(lambda x: max(x, 0)), one row
MassBalanceRow(row) == Max(row.input - row.recovery - row.destruction, 0)

\* calculate_mass_balance flooring the total in place of each row
calculate_mass_balance_total_floor(df_mass) ==
    IF df_mass = <<>> THEN 0
    ELSE Max(Sum([i \in 1..Len(df_mass) |->
                    df_mass[i].input - df_mass[i].recovery - df_mass[i].destruction]), 0)

calculate_mass_balance(df_mass) ==
    IF df_mass = <<>> THEN 0
    ELSE Sum([i \in 1..Len(df_mass) |-> MassBalanceRow(df_mass[i])])

\* activity * factor * (1 - efficiency / 100), one row, in 1/100 kg
EmissionFactorRow(row) == row.activity * row.factor * (100 - row.efficiency)

\* calculate_emission_factor flooring each row as Tier 3 does
calculate_emission_factor_row_floor(df_factor) ==
    IF df_factor = <<>> THEN 0
    ELSE Sum([i \in 1..Len(df_factor) |-> Max(EmissionFactorRow(df_factor[i]), 0)])

calculate_emission_factor(df_factor) ==
    IF df_factor = <<>> THEN 0
    ELSE Sum([i \in 1..Len(df_factor) |-> EmissionFactorRow(df_factor[i])])

\* calculate_simple_mass_balance without the floor
calculate_simple_mass_balance_unfloored(input_amount, recovery_amount, destruction_amount) ==
    input_amount - recovery_amount - destruction_amount

calculate_simple_mass_balance(input_amount, recovery_amount, destruction_amount) ==
    Max(input_amount - recovery_amount - destruction_amount, 0)

calculate_simple_emission_factor(activity_amount, emission_factor, control_efficiency) ==
    Max(activity_amount * emission_factor * (100 - control_efficiency), 0)

\* the quick calculator of the emission page
quick_mass_balance(input_amt, recovery, destroy) == Max(input_amt - recovery - destroy, 0)
quick_emission_factor(activity, ef, efficiency) == activity * ef * (100 - efficiency)

\* ---- exact fractions: the amounts of Tier 1, where a division occurs ------
RECURSIVE GCD(_, _)
GCD(a, b) == IF b = 0 THEN a ELSE GCD(b, a % b)
Abs(n) == IF n < 0 THEN 0 - n ELSE n
SignOf(d) == IF d < 0 THEN 0 - 1 ELSE 1

\* n / d (d # 0) in lowest terms, the denominator positive
Frac(n, d) ==
    [num |-> SignOf(d) * SignOf(n) * (Abs(n) \div GCD(Abs(n), Abs(d))),
     den |-> Abs(d) \div GCD(Abs(n), Abs(d))]
FracAdd(x, y) == Frac(x.num * y.den + y.num * x.den, x.den * y.den)
FracMul(x, y) == Frac(x.num * y.num, x.den * y.den)
RECURSIVE FracSum(_)
FracSum(column) ==
    IF column = <<>> THEN Frac(0, 1) ELSE FracAdd(Head(column), FracSum(Tail(column)))

\* ---- calculate_tms ----------------------------------------------------------
\* Columns: conc = cheukjeong-nongdo(mg/Sm3), flow = baechul-gaseu-yuryang(Sm3/hr),
\* o2 = silcheuk-sanso-nongdo(%), std = pyojun-sanso-nongdo(%), status = sangtae-kodeu.
\* std_o2 is NoneCell or NumCell(n).  The amounts are carried in units of
\* 0.5e-6 kg, the constant factor of every row.
\* a filter that lets every reading through
IsValidReadingAny(row) == row.status = row.status

IsValidReading(row) == row.status = 0

\* row conc * (21 - std_o2) / (21 - row o2) if row o2 < 21 else row conc;
\* the measured concentration when std_o2 is None
CorrectedConcentration(row, std_o2) ==
    IF std_o2.kind # "none" /\ row.o2 < 21
    THEN Frac(row.conc * (21 - std_o2.n), 21 - row.o2)
    ELSE Frac(row.conc, 1)

TmsRow(row, std_o2) == FracMul(CorrectedConcentration(row, std_o2), Frac(row.flow, 1))

TmsColumn(valid_data, std_o2) ==
    [i \in 1..Len(valid_data) |-> TmsRow(valid_data[i], std_o2)]

calculate_tms(df_tms, std_o2) ==
    IF df_tms = <<>> THEN Frac(0, 1)
    ELSE FracSum(TmsColumn(SelectSeq(df_tms, IsValidReading), std_o2))

\* ---- calculate_self_measurement ---------------------------------------------
\* Columns: avg_conc = pyeonggyun-cheukjeong-nongdo(mg/Sm3),
\* avg_flow = pyeonggyun-baechul-yuryang(Sm3/hr), hours = silje-jo-eop-sigan(hr).
\* The amounts are carried in mg (1e-6 kg).
SelfMeasurementRow(row) == row.avg_conc * row.avg_flow * row.hours

calculate_self_measurement(df_self) ==
    IF df_self = <<>> THEN 0
    ELSE Sum([i \in 1..Len(df_self) |-> SelfMeasurementRow(df_self[i])])

\* ---- the frame a tier leaves behind -----------------------------------------
\* A DataFrame is [columns, rows]; df.empty is rows = <<>>.
\* df['baechul-ryang_kg'] = column
AddColumn(frame, name, column) ==
    [columns |-> frame.columns \cup {name},
     rows |-> [i \in 1..Len(frame.rows) |->
                 [c \in DOMAIN frame.rows[i] \cup {name} |->
                     IF c = name THEN column[i] ELSE frame.rows[i][c]]]]

\* calculate_tms works on valid_data, a copy
TmsFrame(df_tms) == df_tms

\* the assignment of the new column made before the test of df.empty
SelfMeasurementFrameUnguarded(df_self) ==
    AddColumn(df_self, "emission_kg",
              [i \in 1..Len(df_self.rows) |-> SelfMeasurementRow(df_self.rows[i])])

SelfMeasurementFrame(df_self) ==
    IF df_self.rows = <<>> THEN df_self
    ELSE AddColumn(df_self, "emission_kg",
                   [i \in 1..Len(df_self.rows) |-> SelfMeasurementRow(df_self.rows[i])])

MassBalanceFrame(df_mass) ==
    IF df_mass.rows = <<>> THEN df_mass
    ELSE AddColumn(df_mass, "emission_kg",
                   [i \in 1..Len(df_mass.rows) |-> MassBalanceRow(df_mass.rows[i])])

EmissionFactorFrame(df_factor) ==
    IF df_factor.rows = <<>> THEN df_factor
    ELSE AddColumn(df_factor, "emission_kg",
                   [i \in 1..Len(df_factor.rows) |-> EmissionFactorRow(df_factor.rows[i])])

\* pd.read_excel(xls, sheet).fillna(0)
ReadSheet(columns, sheet) == [columns |-> columns, rows |-> fillna(sheet)]

MaxSheetRows == 2     \* rows of one sheet of the uploaded workbook

\* a sheet of the workbook is taken as it is: no cell is validated
MassRows ==
    [input : {NumCell(0), NumCell(100)},
     recovery : {NanCell, NumCell(0), NumCell(150)},
     destruction : {NumCell(0), NumCell(50)}]
FactorRows ==
    [activity : {NumCell(0 - 10), NumCell(0), NumCell(100), NumCell(15000)},
     factor : {NumCell(2)},
     efficiency : {NanCell, NumCell(50), NumCell(90), NumCell(100), NumCell(150)}]
TmsRows ==
    [conc : {NumCell(100)},
     flow : {NumCell(1000)},
     o2 : {NumCell(15), NumCell(21), NumCell(25)},
     std : {NanCell, NumCell(6), NumCell(12)},
     status : {NanCell, NumCell(0), NumCell(1)}]
SelfRows ==
    [avg_conc : {NanCell, NumCell(10)},
     avg_flow : {NumCell(0), NumCell(45)},
     hours : {NumCell(0), NumCell(720)}]
Sheets(rows) == UNION {[1..n -> rows] : n \in 0..MaxSheetRows}

\* st.number_input(min_value=0.0) and, for the efficiency, max_value=100.0
AmountInputs == {0, 100, 150}
EfficiencyInputs == {0, 90, 100}
\* the arguments a caller of the scalar methods may pass
AmountArguments == {0 - 10, 0, 100}
\* the amounts of the mass-balance forms: the widget's (>= 0) and a caller's
MassInputs == {0, 400, 500, 1000}
MassArguments == {0 - 10, 0, 400, 500, 1000}
EfficiencyArguments == {0, 100, 150}

\* std_o2 = df_tms[std].iloc[0] if not df_tms.empty else None
StandardOxygen(df_tms) == IF df_tms = <<>> THEN NoneCell ELSE NumCell(df_tms[1].std)

\* Tier 1 of the uploaded workbook
CallCalculateTms(sheet) ==
    /\ Fresh
    /\ invoked' = [fn |-> "calculate_tms", sheet |-> sheet, df |-> fillna(sheet),
                   std_o2 |-> StandardOxygen(fillna(sheet))]
    /\ returned' = [fn |-> "calculate_tms", raised |-> FALSE,
                    value |-> calculate_tms(fillna(sheet), StandardOxygen(fillna(sheet))),
                    frame |-> TmsFrame(
                                  ReadSheet({"conc", "flow", "o2", "std", "status"}, sheet))]
    /\ UNCHANGED <<invVars, appVars>>

\* Tier 2 of the uploaded workbook
CallCalculateSelfMeasurement(sheet) ==
    /\ Fresh
    /\ invoked' = [fn |-> "calculate_self_measurement", sheet |-> sheet, df |-> fillna(sheet)]
    /\ returned' = [fn |-> "calculate_self_measurement", raised |-> FALSE,
                    value |-> calculate_self_measurement(fillna(sheet)),
                    frame |-> SelfMeasurementFrame(
                                  ReadSheet({"avg_conc", "avg_flow", "hours"}, sheet))]
    /\ UNCHANGED <<invVars, appVars>>

CallCalculateMassBalance(sheet) ==
    /\ Fresh
    /\ invoked' = [fn |-> "calculate_mass_balance", sheet |-> sheet, df |-> fillna(sheet)]
    /\ returned' = [fn |-> "calculate_mass_balance", raised |-> FALSE,
                    value |-> calculate_mass_balance(fillna(sheet)),
                    frame |-> MassBalanceFrame(
                                  ReadSheet({"input", "recovery", "destruction"}, sheet))]
    /\ UNCHANGED <<invVars, appVars>>

CallCalculateEmissionFactor(sheet) ==
    /\ Fresh
    /\ invoked' = [fn |-> "calculate_emission_factor", sheet |-> sheet, df |-> fillna(sheet)]
    /\ returned' = [fn |-> "calculate_emission_factor", raised |-> FALSE,
                    value |-> calculate_emission_factor(fillna(sheet)),
                    frame |-> EmissionFactorFrame(
                                  ReadSheet({"activity", "factor", "efficiency"}, sheet))]
    /\ UNCHANGED <<invVars, appVars>>

CallCalculateSimpleMassBalance(input_amount, recovery_amount, destruction_amount) ==
    /\ Fresh
    /\ invoked' = [fn |-> "calculate_simple_mass_balance",
                   args |-> <<input_amount, recovery_amount, destruction_amount>>]
    /\ returned' = [fn |-> "calculate_simple_mass_balance", raised |-> FALSE,
                    value |-> calculate_simple_mass_balance(input_amount, recovery_amount,
                                                            destruction_amount)]
    /\ UNCHANGED <<invVars, appVars>>

CallCalculateSimpleEmissionFactor(activity_amount, emission_factor, control_efficiency) ==
    /\ Fresh
    /\ invoked' = [fn |-> "calculate_simple_emission_factor",
                   args |-> <<activity_amount, emission_factor, control_efficiency>>]
    /\ returned' = [fn |-> "calculate_simple_emission_factor", raised |-> FALSE,
                    value |-> calculate_simple_emission_factor(activity_amount, emission_factor,
                                                               control_efficiency)]
    /\ UNCHANGED <<invVars, appVars>>

QuickMassBalance(input_amt, recovery, destroy) ==
    /\ Fresh
    /\ invoked' = [fn |-> "quick_mass_balance", args |-> <<input_amt, recovery, destroy>>]
    /\ returned' = [fn |-> "quick_mass_balance", raised |-> FALSE,
                    value |-> quick_mass_balance(input_amt, recovery, destroy)]
    /\ UNCHANGED <<invVars, appVars>>

QuickEmissionFactor(activity, ef, efficiency) ==
    /\ Fresh
    /\ invoked' = [fn |-> "quick_emission_factor", args |-> <<activity, ef, efficiency>>]
    /\ returned' = [fn |-> "quick_emission_factor", raised |-> FALSE,
                    value |-> quick_emission_factor(activity, ef, efficiency)]
    /\ UNCHANGED <<invVars, appVars>>

EmissionNext ==
    \/ Fresh /\ \E sheet \in Sheets(TmsRows) : CallCalculateTms(sheet)
    \/ Fresh /\ \E sheet \in Sheets(SelfRows) : CallCalculateSelfMeasurement(sheet)
    \/ Fresh /\ \E sheet \in Sheets(MassRows) : CallCalculateMassBalance(sheet)
    \/ Fresh /\ \E sheet \in Sheets(FactorRows) : CallCalculateEmissionFactor(sheet)
    \/ Fresh /\ \E a \in MassArguments, b \in MassArguments, c \in MassArguments :
          CallCalculateSimpleMassBalance(a, b, c)
    \/ Fresh /\ \E a \in AmountArguments, e \in AmountInputs, c \in EfficiencyArguments :
          CallCalculateSimpleEmissionFactor(a, e, c)
    \/ Fresh /\ \E a \in MassInputs, b \in MassInputs, c \in MassInputs : QuickMassBalance(a, b, c)
    \/ Fresh /\ \E a \in AmountInputs, e \in AmountInputs, c \in EfficiencyInputs :
          QuickEmissionFactor(a, e, c)

SpecEmission == InvInit /\ [][EmissionNext]_vars

Net(row) == row.input - row.recovery - row.destruction
Releases(row) == Net(row) > 0
NetSum(rows) == Sum([i \in 1..Len(rows) |-> Net(rows[i])])
RemoveAt(rows, i) == SubSeq(rows, 1, i - 1) \o SubSeq(rows, i + 1, Len(rows))

\* C9: calculate_mass_balance floors each row at 0 before it sums: the total
\* is the sum of input - recovery - destruction over the rows where that is
\* positive, a row with recovery + destruction >= input contributes exactly 0
\* (the total is the total of the sheet without the row), and the total is
\* never below the total of the sheet without any one row.
C9_MassBalanceFloorsEachRow ==
    invoked.fn = "calculate_mass_balance"
    => /\ returned.value = NetSum(SelectSeq(invoked.df, Releases))
       /\ \A i \in 1..Len(invoked.df) :
             /\ ~Releases(invoked.df[i])
                => returned.value = calculate_mass_balance(RemoveAt(invoked.df, i))
             /\ returned.value >= calculate_mass_balance(RemoveAt(invoked.df, i))

\* the rows (100, 150, 0) and (100, 0, 0) total 100
C9_Witness ==
    /\ invoked.fn = "calculate_mass_balance"
    /\ invoked.df = << [input |-> 100, recovery |-> 150, destruction |-> 0],
                       [input |-> 100, recovery |-> 0, destruction |-> 0] >>
    /\ returned.value = 100

\* C10: the emission-factor tier never yields a negative emission: the total
\* of calculate_emission_factor over the rows of an uploaded sheet, the value
\* of calculate_simple_emission_factor and the value of the quick calculator
\* are all >= 0.
C10_EmissionFactorNeverNegative ==
    invoked.fn \in {"calculate_emission_factor", "calculate_simple_emission_factor",
                    "quick_emission_factor"}
    => returned.value >= 0

\* the same statement for the two scalar forms alone
C10_ScalarFormsNeverNegative ==
    invoked.fn \in {"calculate_simple_emission_factor", "quick_emission_factor"}
    => returned.value >= 0

TierNames ==
    {"calculate_tms", "calculate_self_measurement", "calculate_mass_balance",
     "calculate_emission_factor"}

\* C11: each of the four batch tiers returns exactly 0 for an empty batch and
\* leaves the empty batch as it was: no row and no column is added to it.
C11_EmptyBatchIsZero ==
    (invoked.fn \in TierNames /\ invoked.df = <<>>)
    => /\ returned.value = IF invoked.fn = "calculate_tms" THEN Frac(0, 1) ELSE 0
       /\ returned.frame.rows = <<>>
       /\ "emission_kg" \notin returned.frame.columns

\* Tier 2 was called on a sheet without rows, returned 0 and left the
\* sheet's three columns
C11_Witness ==
    /\ invoked.fn = "calculate_self_measurement"
    /\ invoked.df = <<>>
    /\ returned.value = 0
    /\ returned.frame.columns = {"avg_conc", "avg_flow", "hours"}

\* C12: calculate_simple_mass_balance returns input - recovery - destruction
\* when that is positive and 0 otherwise, so 0 whenever recovery + destruction
\* exceeds the input; the quick calculator of the emission page returns, for
\* the amounts its inputs admit, the value calculate_simple_mass_balance
\* returns for them.
C12_SimpleMassBalance ==
    /\ invoked.fn = "calculate_simple_mass_balance"
       => /\ returned.value
               = IF invoked.args[1] - invoked.args[2] - invoked.args[3] > 0
                 THEN invoked.args[1] - invoked.args[2] - invoked.args[3] ELSE 0
          /\ invoked.args[2] + invoked.args[3] > invoked.args[1] => returned.value = 0
    /\ invoked.fn = "quick_mass_balance"
       => returned.value
            = calculate_simple_mass_balance(invoked.args[1], invoked.args[2], invoked.args[3])

\* calculate_simple_mass_balance(1000, 400, 500) returned 100
C12_Witness ==
    /\ invoked.fn = "calculate_simple_mass_balance"
    /\ invoked.args = <<1000, 400, 500>>
    /\ returned.value = 100

\* what a row adds to the total: activity * factor, less its efficiency share
Contribution(row) ==
    row.activity * row.factor * 100 - row.activity * row.factor * row.efficiency

MassBatch(args) == << [input |-> args[1], recovery |-> args[2], destruction |-> args[3]] >>
FactorBatch(args) == << [activity |-> args[1], factor |-> args[2], efficiency |-> args[3]] >>

\* C14: a simple form and its batch tier agree on a batch of one row:
\* calculate_simple_mass_balance with calculate_mass_balance, and
\* calculate_simple_emission_factor with calculate_emission_factor, whichever
\* of the two was called.
C14_SimpleEqualsOneRowBatch ==
    /\ invoked.fn = "calculate_simple_mass_balance"
       => returned.value = calculate_mass_balance(MassBatch(invoked.args))
    /\ (invoked.fn = "calculate_mass_balance" /\ Len(invoked.df) = 1)
       => returned.value = calculate_simple_mass_balance(
                               invoked.df[1].input, invoked.df[1].recovery,
                               invoked.df[1].destruction)
    /\ invoked.fn = "calculate_simple_emission_factor"
       => returned.value = calculate_emission_factor(FactorBatch(invoked.args))
    /\ (invoked.fn = "calculate_emission_factor" /\ Len(invoked.df) = 1)
       => returned.value = calculate_simple_emission_factor(
                               invoked.df[1].activity, invoked.df[1].factor,
                               invoked.df[1].efficiency)

\* the mass-balance half of the statement alone
C14_MassBalanceFormsAgree ==
    /\ invoked.fn = "calculate_simple_mass_balance"
       => returned.value = calculate_mass_balance(MassBatch(invoked.args))
    /\ (invoked.fn = "calculate_mass_balance" /\ Len(invoked.df) = 1)
       => returned.value = calculate_simple_mass_balance(
                               invoked.df[1].input, invoked.df[1].recovery,
                               invoked.df[1].destruction)

\* the readings of a sheet, as read, whose status code is not 0
OtherReadings == {r \in {fillna(<< row >>)[1] : row \in TmsRows} : r.status # 0}

InsertAt(rows, i, row) == SubSeq(rows, 1, i) \o << row >> \o SubSeq(rows, i + 1, Len(rows))
ReplaceAt(rows, i, row) == [rows EXCEPT ![i] = row]

\* what a valid reading adds, in 0.5e-6 kg, under the standard oxygen std_o2
Expected(row, std_o2) ==
    IF std_o2.kind = "none" \/ row.o2 >= 21
    THEN Frac(row.conc * row.flow, 1)
    ELSE Frac(row.conc * (21 - std_o2.n) * row.flow, 21 - row.o2)

\* C15: in calculate_tms, called with a standard oxygen concentration, only
\* the readings of status code 0 contribute: removing a reading of another
\* status code, altering it into any other such reading, or adding one at any
\* place leaves the result as it is.  A valid reading adds its concentration
\* times the flow, corrected by (21 - standard O2) / (21 - actual O2) only when
\* its actual O2 is below 21, so the divisor is positive; at an actual O2 of
\* 21 or more the measured concentration is used as it is.
C15_OnlyValidReadingsContribute ==
    invoked.fn = "calculate_tms"
    => /\ \A i \in 1..Len(invoked.df) :
             invoked.df[i].status # 0
             => /\ calculate_tms(RemoveAt(invoked.df, i), invoked.std_o2) = returned.value
                /\ \A r \in OtherReadings :
                      calculate_tms(ReplaceAt(invoked.df, i, r), invoked.std_o2)
                        = returned.value
       /\ \A i \in 0..Len(invoked.df), r \in OtherReadings :
             calculate_tms(InsertAt(invoked.df, i, r), invoked.std_o2) = returned.value
       /\ \A i \in 1..Len(invoked.df) :
             invoked.df[i].status = 0
             => /\ returned.value
                     = FracAdd(calculate_tms(RemoveAt(invoked.df, i), invoked.std_o2),
                               Expected(invoked.df[i], invoked.std_o2))
                /\ CorrectedConcentration(invoked.df[i], invoked.std_o2).den > 0
                /\ invoked.df[i].o2 >= 21
                   => CorrectedConcentration(invoked.df[i], invoked.std_o2)
                        = Frac(invoked.df[i].conc, 1)

\* a sheet of a valid reading, corrected from an actual O2 of 15 to the
\* standard 6, and a reading of status 1: 100 * 15/6 * 1000 in 0.5e-6 kg
C15_Witness ==
    /\ invoked.fn = "calculate_tms"
    /\ Len(invoked.df) = 2
    /\ invoked.df[1].status = 0 /\ invoked.df[1].o2 = 15 /\ invoked.df[1].std = 6
    /\ invoked.df[2].status = 1
    /\ returned.value = Frac(250000, 1)

\* the same statement for the Tier 1 step of the upload, which takes the
\* standard oxygen concentration from the first reading of the sheet
C15_UploadIgnoresOtherReadings ==
    invoked.fn = "calculate_tms"
    => \A i \in 1..Len(invoked.df) :
          invoked.df[i].status # 0
          => calculate_tms(RemoveAt(invoked.df, i), StandardOxygen(RemoveAt(invoked.df, i)))
               = returned.value

\* C16: for a CAS number absent from the PRTR table, or when no PRTR module
\* is importable, the PRTR result is "-" for applicability, group and
\* threshold and the lookup does not raise; the inventory row built from such
\* a result, or from no result, has PRTR group "-" and PRTR threshold "-"; and
\* a row has a PRTR group or threshold other than "-" only when the status
\* says applicability "O".
C16_UnknownPrtrIsDash ==
    /\ (invoked.fn = "check_prtr_status" /\ (invoked.cas = CasUnknown \/ ~invoked.imported))
       => /\ ~returned.raised
          /\ returned.value = [applies |-> "-", group |-> "-", threshold |-> "-"]
          /\ returned.item.prtr_group = "-" /\ returned.item.prtr_threshold = "-"
    /\ (invoked.fn = "check_prtr" /\ (invoked.cas = CasUnknown \/ ~invoked.imported))
       => /\ ~returned.raised
          /\ returned.value.target = "-" /\ returned.value.group = "-"
          /\ returned.value.quantity = "-"
    /\ invoked.fn = "check_prtr_status"
       => ((returned.item.prtr_group # "-" \/ returned.item.prtr_threshold # "-")
           => returned.value.applies = "O")
    /\ invoked.fn \in {"mgmt_create_inventory_item", "create_inventory_item"}
       => /\ (IsNoDict(invoked.prtr_status) \/ Get(invoked.prtr_status, "applies", "-") = "-")
             => returned.value.prtr_group = "-" /\ returned.value.prtr_threshold = "-"
          /\ (returned.value.prtr_group # "-" \/ returned.value.prtr_threshold # "-")
             => Get(invoked.prtr_status, "applies", "-") = "O"

\* a CAS number absent from the table was looked up on the management page and
\* its row built
C16_Witness ==
    /\ invoked.fn = "check_prtr_status" /\ invoked.cas = CasUnknown /\ invoked.imported
    /\ returned.value.applies = "-"
    /\ returned.item.cas_no = CasUnknown /\ returned.item.prtr_group = "-"

(***************************************************************************)
(* An extractor called twice on the same raw record.  A call reads the     *)
(* record and starts from a dict built in the call; what an earlier call   *)
(* returned is at hand when the next one starts.                           *)
(***************************************************************************)
\* a dict shared between the calls: the next call starts from what the last left
ResultAtEntryShared(defaults, previous) == IF IsNoDict(previous) THEN defaults ELSE previous

\* result = {...}: every call builds the dict it starts from
ResultAtEntry(defaults, previous) == defaults

TypeItems ==
    {KecoTypeList[1], KecoTypeList[2], KecoTypeList[3],
     [sbstnClsfTypeNm |-> "toxic", unqNo |-> "97-1-6", contInfo |-> <<"1", "%", " ", "ge">>,
      excpInfo |-> <<"exempt">>],
     [sbstnClsfTypeNm |-> "unlisted_class", unqNo |-> "1", contInfo |-> <<>>, excpInfo |-> <<>>]}

Called(fn, http, record, previous, value) ==
    /\ invoked' = [fn |-> fn, http |-> http, record |-> record,
                   calls |-> IF IsNoDict(previous) THEN 1 ELSE 2]
    /\ returned' = [fn |-> fn, raised |-> IsRaised(value), value |-> value,
                    first |-> IF IsNoDict(previous) THEN value ELSE returned.first,
                    given |-> IF IsNoDict(previous) THEN record ELSE returned.given]
    /\ UNCHANGED <<invVars, appVars>>

FirstGetLegalRegulations(http, items) ==
    /\ Fresh
    /\ Called("get_legal_regulations", http, items, NoDict,
              Extract(LegalStep, ResultAtEntry(LegalDefaults, NoDict), RootItems(http, items)))

AgainGetLegalRegulations ==
    /\ invoked.fn = "get_legal_regulations" /\ invoked.calls = 1
    /\ Called("get_legal_regulations", invoked.http, invoked.record, returned.value,
              Extract(LegalStep, ResultAtEntry(LegalDefaults, returned.value),
                      RootItems(invoked.http, invoked.record)))

FirstGetExposureLimits(http, items) ==
    /\ Fresh
    /\ Called("get_exposure_limits", http, items, NoDict,
              Extract(ExposureStep, ResultAtEntry(ExposureDefaults, NoDict),
                      RootItems(http, items)))

AgainGetExposureLimits ==
    /\ invoked.fn = "get_exposure_limits" /\ invoked.calls = 1
    /\ Called("get_exposure_limits", invoked.http, invoked.record, returned.value,
              Extract(ExposureStep, ResultAtEntry(ExposureDefaults, returned.value),
                      RootItems(invoked.http, invoked.record)))

FirstExtractClassifications(type_list) ==
    /\ Fresh
    /\ Called("extract_classifications", "answer", type_list, NoDict,
              extract_classifications(type_list))

AgainExtractClassifications ==
    /\ invoked.fn = "extract_classifications" /\ invoked.calls = 1
    /\ Called("extract_classifications", "answer", invoked.record, returned.value,
              extract_classifications(invoked.record))

RepeatNext ==
    \/ Fresh /\ \E http \in ExtractHttp, items \in Answers(LegalItems) :
          FirstGetLegalRegulations(http, items)
    \/ AgainGetLegalRegulations
    \/ Fresh /\ \E http \in ExtractHttp, items \in Answers(ExposureItems) :
          FirstGetExposureLimits(http, items)
    \/ AgainGetExposureLimits
    \/ Fresh /\ \E type_list \in Answers(TypeItems) : FirstExtractClassifications(type_list)
    \/ AgainExtractClassifications

SpecRepeat == InvInit /\ [][RepeatNext]_vars

RepeatedNames == {"get_legal_regulations", "get_exposure_limits", "extract_classifications"}

WithoutCas(cell) ==
    \/ cell.kind \in {"none", "nan"}
    \/ cell.kind = "text" /\ \/ \A i \in 1..Len(cell.text) : cell.text[i] = " "
                             \/ cell.text \in {<<"None">>, <<"nan">>}

RowsWithoutCas(batch_df) == Cardinality({i \in 1..Len(batch_df) : WithoutCas(batch_df[i])})

\* C18: a click of the batch button skips the rows whose CAS cell is empty,
\* None or nan and counts them: when the click completes, succeeded + skipped
\* is the number of rows of the batch, skipped is the number of its rows
\* without a CAS number, and the inventory has grown by exactly succeeded,
\* no skipped row having been appended.
C18_BatchCounts ==
    NextBatch =>
        /\ notice'.kind \in {"batch_done", "all_done"}
        /\ notice'.success + notice'.skip = Len(BatchDf)
        /\ notice'.skip = RowsWithoutCas(BatchDf)
        /\ Len(inventory') - Len(inventory) = notice'.success
        /\ SubSeq(inventory', 1, Len(inventory)) = inventory
        /\ \A i \in NewRows : inventory'[i].cas_no # <<>>

C18_BatchUploadAccounting == [][C18_BatchCounts]_vars

\* a batch of a NaN cell and a CAS number has completed: one row skipped, one
\* registered
C18_Witness ==
    /\ notice.kind = "all_done"
    /\ df = << NanCell, TextCell(CasAcetone) >>
    /\ notice.skip = 1 /\ notice.success = 1
    /\ Len(inventory) = 1

\* C19: a lookup of one CAS number issues exactly one request, whether the
\* exchange brings an answer or not: search_by_cas, search_chemical_by_cas and
\* get_chemical_regulations issue one request whatever its outcome, and
\* get_full_msds_data issues the search alone when the search finds nothing
\* and the six detail requests after it only when it found the substance.
C19_OneRequestPerLookup ==
    /\ invoked.fn = "search_by_cas" => returned.requests = << "chemlist" >>
    /\ invoked.fn \in {"search_chemical_by_cas", "get_chemical_regulations"}
       => returned.requests = << "chemSbstnList" >>
    /\ invoked.fn = "get_full_msds_data"
       => /\ returned.requests[1] = "chemlist"
          /\ \A i \in 2..Len(returned.requests) : returned.requests[i] # "chemlist"
          /\ (NoAnswer(invoked.http) \/ KoshaZeroResults(invoked.cas_no))
             <=> Len(returned.requests) = 1
          /\ returned.value.success <=> Len(returned.requests) = 7

\* get_full_msds_data was called while the registry did not answer, and
\* issued the search alone
C19_Witness ==
    /\ invoked.fn = "get_full_msds_data" /\ invoked.http = "timeout"
    /\ ~returned.value.success
    /\ returned.requests = << "chemlist" >>

\* the registry cannot be reached: requests.get raises, or the status is an error
Unreachable == {"timeout", "http_error"}

\* the KECO registry's answer that holds no item
KecoEmptyAnswer == [header |-> [resultCode |-> "200", resultMsg |-> "NORMAL"],
                    body |-> [items |-> <<>>]]

\* what the caller gets for a CAS number when the registry answers zero results
KoshaWhenZeroResults(cas_no, https) == FullMsdsData(Strip(cas_no), SearchItem(<<>>), https)
KecoWhenZeroResults(cas_no) == RegulationsOf(parse_response(KecoEmptyAnswer, cas_no), cas_no)

\* C20: for any CAS number the caller gets the same value whether the registry
\* was unreachable or answered with zero results: get_full_msds_data and
\* get_chemical_regulations called while the registry is unreachable return
\* what they return on a zero-result answer, field for field.
C20_DownLooksLikeUnregistered ==
    /\ (invoked.fn = "get_full_msds_data" /\ invoked.http \in Unreachable)
       => returned.value = KoshaWhenZeroResults(invoked.cas_no, invoked.https)
    /\ (invoked.fn = "get_chemical_regulations" /\ invoked.http \in Unreachable)
       => returned.value = KecoWhenZeroResults(invoked.cas_no)

\* the KOSHA half of the statement alone
C20_KoshaDownLooksLikeUnregistered ==
    (invoked.fn = "get_full_msds_data" /\ invoked.http \in Unreachable)
    => returned.value = KoshaWhenZeroResults(invoked.cas_no, invoked.https)

\* the two KECO results agree on every field but the error text
C20_KecoDiffersInErrorOnly ==
    (invoked.fn = "get_chemical_regulations" /\ invoked.http \in Unreachable)
    => /\ DOMAIN returned.value = DOMAIN KecoWhenZeroResults(invoked.cas_no)
       /\ \A k \in DOMAIN returned.value \ {"error"} :
             returned.value[k] = KecoWhenZeroResults(invoked.cas_no)[k]
       /\ returned.value.error # KecoWhenZeroResults(invoked.cas_no).error

\* no request comes directly after a request, and no sleep ends the trace
Separated(trace) ==
    /\ \A i \in 1..(Len(trace) - 1) : trace[i] = "sleep" \/ trace[i + 1] = "sleep"
    /\ trace # <<>> => trace[Len(trace)] # "sleep"

\* batch_query keeps the delay between any two requests, inside a lookup and
\* between two substances, and does not sleep after the last substance
C21_BatchQueryDelays ==
    invoked.fn = "batch_query" => Separated(returned.trace)

\* the batch loop of the management page keeps the delay between its requests
C21_PageBatchDelays == NextBatch => Separated(BatchLoopTrace(BatchDf))

\* C21: in sequential batch processing any two consecutive registry requests
\* are separated by the fixed delay, inside one substance's lookup and between
\* successive substances, and no delay follows the last item: in batch_query
\* and in the batch loop of the management page.
C21_RequestsAreSpaced == [][C21_PageBatchDelays]_vars /\ []C21_BatchQueryDelays

\* batch_query looked up a registered substance and then another one: 14
\* requests, a sleep between any two of them, none at the end
C21_BatchQueryWitness ==
    /\ invoked.fn = "batch_query"
    /\ Len(returned.trace) = 27
    /\ returned.trace[14] = "sleep" /\ returned.trace[15] = "chemlist"

(***************************************************************************)
(* chemical_inventory_app.py: the company's inventory file and the         *)
(* emission page.  A row of the file keeps chem_name = hwahak-muljil-      *)
(* myeong, amount = yeongan-chwigeumnyang(kg), emission = daegi-           *)
(* baechullyang(kg/nyeon), method = baechul-sanjeong-bangbeop and          *)
(* prtr = 'PRTR daesang-yeobu'.  The tags are mass_balance = muljil-       *)
(* sujibeop and emission_factor = baechul-gyesubeop.  A script run sees    *)
(* st.button(key) true for the one button whose click started the run.     *)
(***************************************************************************)
\* sheets an administrator uploads: the chemical names, row by row
UploadedSheets == {<<"acetone">>, <<"toluene">>, <<"acetone", "toluene">>}

\* the values typed into the three number inputs of a method
FirstInputs == {0, 1500}
SecondInputs == {0, 500}
ThirdInputs == {0}

StoredRow(chem_name) ==
    [chem_name |-> chem_name, amount |-> NoAmount, emission |-> NoAmount,
     method |-> PyNone, prtr |-> PyNone]

load_inventory_from_upload(uploaded_file) ==
    [i \in 1..Len(uploaded_file) |-> StoredRow(uploaded_file[i])]

\* None when the company has no file
load_inventory(file) == IF file.exists THEN file ELSE NoFile

\* writable is false when the write raises (the file is open elsewhere)
save_inventory(file, rows, writable) ==
    IF writable THEN [exists |-> TRUE, rows |-> rows] ELSE file

st_button(key, pressed) == key = pressed

Widgets ==
    [chemical : {"acetone", "toluene"}, method : {"mass_balance", "emission_factor"},
     first : FirstInputs, second : SecondInputs, third : ThirdInputs]

\* df[df[chem_name] == selected_chemical].index[0]
FirstIndexOf(rows, chem_name) ==
    CHOOSE i \in 1..Len(rows) :
        /\ rows[i].chem_name = chem_name
        /\ \A j \in 1..(i - 1) : rows[j].chem_name # chem_name

\* the assignments of a save block
SaveBlockRows(rows, selected_chemical, amount, emission, method) ==
    [rows EXCEPT ![FirstIndexOf(rows, selected_chemical)] =
        [@ EXCEPT !.amount = amount, !.emission = emission, !.method = method,
                  !.prtr = IF amount >= 1000 THEN "Y" ELSE "N"]]

\* the selectbox keeps its value while it is among the options
SelectedChemical(rows, w) ==
    IF \E i \in 1..Len(rows) : rows[i].chem_name = w.chemical
    THEN w.chemical ELSE rows[1].chem_name

PageOf(file, shown, buttons) == [file |-> file, shown |-> shown, buttons |-> buttons]

\* one run of tab 1 of the emission page over the stored file
EmissionTabRun(file, w, pressed, writable) ==
    LET loaded == load_inventory(file) IN
    IF ~(loaded.exists /\ Len(loaded.rows) > 0)
    THEN PageOf(file, NoResult, {})
    ELSE
    LET rows == loaded.rows
        selected_chemical == SelectedChemical(rows, w)
        calc_key == IF w.method = "mass_balance" THEN "calc_mass" ELSE "calc_ef"
        save_key == IF w.method = "mass_balance" THEN "save_mass" ELSE "save_ef"
        emission == IF w.method = "mass_balance"
                    THEN calculate_simple_mass_balance(w.first, w.second, w.third)
                    ELSE calculate_simple_emission_factor(w.first, w.second, w.third)
    IN  IF st_button(calc_key, pressed)
        THEN IF st_button(save_key, pressed)
             THEN PageOf(save_inventory(file,
                             SaveBlockRows(rows, selected_chemical, w.first, emission, w.method),
                             writable),
                         NoResult, {calc_key})
             ELSE PageOf(file,
                         [chemical |-> selected_chemical, amount |-> w.first,
                          emission |-> emission, method |-> w.method],
                         {calc_key, save_key})
        ELSE PageOf(file, NoResult, {calc_key})

EmissionRerun(s, w, pressed, writable) ==
    LET page == EmissionTabRun(stored, w, pressed, writable) IN
    /\ stored' = page.file
    /\ session' = [session EXCEPT ![s] =
                      [@ EXCEPT !.widgets = w, !.shown = page.shown, !.buttons = page.buttons]]
    /\ UNCHANGED <<invVars, callVars, msds_data>>

\* the user opens the page or changes one widget: a run with no button pressed
ChangeWidget(s, w) ==
    /\ Cardinality({f \in DOMAIN w : w[f] # session[s].widgets[f]}) = 1
    /\ EmissionRerun(s, w, "none", TRUE)

\* the user clicks a button the last run drew
ClickButton(s, key, writable) ==
    /\ key \in session[s].buttons
    /\ EmissionRerun(s, session[s].widgets, key, writable)

\* the administrator's upload page: the sheet is read and saved over the file
UploadSave(s, uploaded_file, writable) ==
    LET rows == load_inventory_from_upload(uploaded_file) IN
    /\ stored' = save_inventory(stored, rows, writable)
    /\ session' = [session EXCEPT ![s] =
                      [FreshSession EXCEPT !.saved = IF writable THEN rows ELSE session[s].saved]]
    /\ UNCHANGED <<invVars, callVars, msds_data>>

StoreNext ==
    \/ \E s \in Sessions, w \in Widgets : ChangeWidget(s, w)
    \/ \E s \in Sessions, key \in {"calc_mass", "save_mass", "calc_ef", "save_ef"},
          writable \in BOOLEAN : ClickButton(s, key, writable)
    \/ \E s \in Sessions, uploaded_file \in UploadedSheets, writable \in BOOLEAN :
          UploadSave(s, uploaded_file, writable)

SpecStore == InvInit /\ [][StoreNext]_vars

\* the stored row of the chemical holds the result the page showed
HoldsResult(file, shown) ==
    /\ file.exists
    /\ \E i \in 1..Len(file.rows) : file.rows[i].chem_name = shown.chemical
    /\ LET row == file.rows[FirstIndexOf(file.rows, shown.chemical)] IN
         row.emission = shown.emission /\ row.method = shown.method

C22_SaveStores ==
    \A s \in Sessions :
        (session[s].shown # NoResult
         /\ \E key \in {"save_mass", "save_ef"} : ClickButton(s, key, TRUE))
        => HoldsResult(stored', session[s].shown)

\* C22: after the user calculated an emission for the selected chemical and
\* then presses save (the file being writable), the stored inventory row of
\* that chemical holds the computed amount and the tag of the method used.
C22_SavedAfterCalculate == [][C22_SaveStores]_vars

\* what the page does instead: no run writes a result into the file
C22_ResultNeverStored ==
    \A i \in 1..Len(stored.rows) :
        stored.rows[i].emission = NoAmount /\ stored.rows[i].method = PyNone

ListFiles == {file \in Files : \A i \in 1..Len(file) : file[i] \in {NoneCell, TextCell(CasAcetone), TextCell(CasUnknown)}}

ListNext ==
    \/ \E file \in ListFiles : UploadFile(file)
    \/ RemoveFile
    \/ NextBatch
    \/ RestartFromBeginning
    \/ \E cas \in CasInputs, call \in MadeKoshaCalls, http \in PageHttpKinds :
          MgmtRegister(cas, call, http)
    \/ \E cas_input \in CasInputs, https \in PageExchanges : PageRegister(cas_input, https)
    \/ \E del_idx \in 1..MaxListed : DeleteRow(del_idx)
    \/ ClearAll

SpecList == InvInit /\ [][ListNext]_vars

\* every row of rows is still in place at the head of later
KeepsRows(rows, later) == Len(rows) <= Len(later) /\ SubSeq(later, 1, Len(rows)) = rows

\* exactly row k is gone: the rows before it and after it as they were, in order
ExactlyRowGone(rows, later, k) ==
    /\ Len(later) = Len(rows) - 1
    /\ \A i \in 1..(k - 1) : later[i] = rows[i]
    /\ \A i \in k..Len(later) : later[i] = rows[i + 1]

C24_ListStep ==
    /\ ~KeepsRows(inventory, inventory')
       => \/ \E del_idx \in 1..MaxListed : DeleteRow(del_idx)
          \/ ClearAll
          \/ RestartFromBeginning
    /\ \A del_idx \in 1..MaxListed :
          DeleteRow(del_idx) => ExactlyRowGone(inventory, inventory', del_idx)

\* C24: a row leaves the inventory only by an explicit user action (delete,
\* clear all, restart from the beginning); deleting the selected row removes
\* exactly that row and leaves the other rows, their field values and their
\* relative order as they were.
C24_RowsLeaveByUserActionOnly == [][C24_ListStep]_vars

\* two different rows are left, in their order, of a list that a batch click
\* and a single registration had brought to three rows
C24_Witness ==
    /\ Len(inventory) = 2 /\ inventory[1] # inventory[2]
    /\ inventory[1].cas_no = CasUnknown /\ inventory[2].cas_no = CasAcetone
    /\ processed_rows = 0 /\ Len(df) = 2 /\ notice = NoNotice

\* the list holds three rows, not all alike
C24_ThreeRows ==
    Len(inventory) = 3 /\ inventory[1] # inventory[3]

(***************************************************************************)
(* export_inventory_to_excel of the two pages: the worksheet.  row1 and    *)
(* row2 are the two header rows ("" in a cell never written), merged the   *)
(* merged ranges, data the rows from row 3 on.  The header texts are named *)
(* by the item keys; the group headers are toxicity_info = dokseong-       *)
(* jeongbo, legal_regulation = beopjeok-gyuje daesang-yeobu, hazmat =      *)
(* wiheommul and env_regulation = hwangyeongbu beopjeok-gyuje.             *)
(***************************************************************************)
MaxLedgerRows == 2     \* items handed to an export

MergedRange(first_col, first_row, last_col, last_row) ==
    [first_col |-> first_col, first_row |-> first_row,
     last_col |-> last_col, last_row |-> last_row]

\* the data row without the three hazardous-material cells
PageDataRowWithoutHazmat(item) ==
    << Get(item, "process", ""), Get(item, "product", ""), Get(item, "chem_name", ""),
       Get(item, "alias", ""), Get(item, "cas_no", ""), Get(item, "content", ""),
       Get(item, "carcinogenicity", "-"), Get(item, "mutagenicity", "-"),
       Get(item, "reproductive", "-"), Get(item, "twa", "-"),
       Get(item, "work_measure", "X"), Get(item, "special_health", "X"),
       Get(item, "managed", "X"), Get(item, "special_managed", "X"),
       "-", Get(item, "toxic", "X"), Get(item, "accident", "X"),
       Get(item, "restricted", "-"), "-", "-", "-", "-", "-" >>

PageRow1 ==
    << "process", "product", "chem_name", "alias", "cas_no", "content",
       "toxicity_info", "", "", "", "legal_regulation", "", "", "",
       "hazmat", "", "", "env_regulation", "", "", "", "", "", "", "", "" >>

PageRow2Headers ==
    << "", "", "", "", "", "",
       "carcinogenicity", "mutagenicity", "reproductive", "twa",
       "work_measure", "special_health", "managed", "special_managed",
       "hazmat_class", "hazmat_quantity", "hazmat_grade",
       "existing", "toxic", "accident", "restricted", "priority", "persistent",
       "content_info", "registration_target", "existing_status" >>

PageMerged ==
    {MergedRange(col, 1, col, 2) : col \in 1..6}
    \cup {MergedRange(7, 1, 10, 1), MergedRange(11, 1, 14, 1),
          MergedRange(15, 1, 17, 1), MergedRange(18, 1, 26, 1)}

PageDataRow(item) ==
    << Get(item, "process", ""), Get(item, "product", ""), Get(item, "chem_name", ""),
       Get(item, "alias", ""), Get(item, "cas_no", ""), Get(item, "content", ""),
       Get(item, "carcinogenicity", "-"), Get(item, "mutagenicity", "-"),
       Get(item, "reproductive", "-"), Get(item, "twa", "-"),
       Get(item, "work_measure", "X"), Get(item, "special_health", "X"),
       Get(item, "managed", "X"), Get(item, "special_managed", "X"),
       Get(item, "hazmat_class", "-"), Get(item, "hazmat_quantity", "-"),
       Get(item, "hazmat_grade", "-"),
       "-", Get(item, "toxic", "X"), Get(item, "accident", "X"),
       Get(item, "restricted", "-"), "-", "-", "-", "-", "-" >>

\* pages/2_Inventory.py
export_inventory_to_excel(inventory_data) ==
    [row1 |-> PageRow1, row2 |-> PageRow2Headers, merged |-> PageMerged,
     data |-> [i \in 1..Len(inventory_data) |-> PageDataRow(inventory_data[i])]]

MgmtRow1 ==
    << "process", "unit_workplace", "product", "chem_name", "alias", "cas_no", "content",
       "toxicity_info", "", "", "", "legal_regulation", "", "", "",
       "hazmat", "", "", "env_regulation", "", "", "", "", "", "", "", "" >>

MgmtRow2 ==
    << "", "", "", "", "", "", "",
       "carcinogenicity", "mutagenicity", "reproductive", "twa",
       "work_measure", "special_health", "managed", "special_managed",
       "hazmat_class", "hazmat_quantity", "hazmat_grade",
       "existing", "toxic_class", "accident", "restricted", "priority", "persistent",
       "content_info", "registration_target", "existing_status" >>

MgmtMerged ==
    {MergedRange(col, 1, col, 2) : col \in 1..7}
    \cup {MergedRange(8, 1, 11, 1), MergedRange(12, 1, 15, 1),
          MergedRange(16, 1, 18, 1), MergedRange(19, 1, 27, 1)}

MgmtDataRow(item) ==
    << Get(item, "process", ""), Get(item, "unit_workplace", ""), Get(item, "product", ""),
       Get(item, "chem_name", ""), Get(item, "alias", ""), Get(item, "cas_no", ""),
       Get(item, "content", ""),
       Get(item, "carcinogenicity", "-"), Get(item, "mutagenicity", "-"),
       Get(item, "reproductive", "-"), Get(item, "twa", "-"),
       Get(item, "work_measure", "X"), Get(item, "special_health", "X"),
       Get(item, "managed", "X"), Get(item, "special_managed", "X"),
       Get(item, "hazmat_class", "-"), Get(item, "hazmat_quantity", "-"),
       Get(item, "hazmat_grade", "-"),
       Get(item, "existing", "-"), Get(item, "toxic_class", "X"), Get(item, "accident", "X"),
       Get(item, "restricted", "-"), Get(item, "priority", "-"), Get(item, "persistent", "-"),
       Get(item, "content_info", "-"), Get(item, "registration_target", "-"),
       Get(item, "existing_status", "-") >>

\* pages/2_(box)_inventory management
mgmt_export_inventory_to_excel(inventory_data) ==
    [row1 |-> MgmtRow1, row2 |-> MgmtRow2, merged |-> MgmtMerged,
     data |-> [i \in 1..Len(inventory_data) |-> MgmtDataRow(inventory_data[i])]]

\* items of either page: st.session_state.inventory is one list for both
LedgerItems ==
    {mgmt_create_inventory_item("", CasAcetone, kosha_data, keco_data, NoDict) :
        kosha_data \in KoshaRecords,
        keco_data \in {NoDict, [success |-> TRUE, toxic |-> "O", accident_preparedness |-> "O"]}}
    \cup {create_inventory_item("", CasAcetone, get_full_msds_data(CasAcetone, https), prtr_status) :
        https \in PageExchanges, prtr_status \in {NoDict, PrtrTable(CasAcetone)}}

\* the pages export a list that holds an item
Ledgers == UNION {[1..n -> LedgerItems] : n \in 1..MaxLedgerRows}

CallExportInventoryToExcel(inventory_data) ==
    /\ invoked' = [fn |-> "export_inventory_to_excel", inventory_data |-> inventory_data]
    /\ returned' = Returned("export_inventory_to_excel",
                            export_inventory_to_excel(inventory_data))
    /\ UNCHANGED <<invVars, appVars>>

CallMgmtExportInventoryToExcel(inventory_data) ==
    /\ invoked' = [fn |-> "mgmt_export_inventory_to_excel", inventory_data |-> inventory_data]
    /\ returned' = Returned("mgmt_export_inventory_to_excel",
                            mgmt_export_inventory_to_excel(inventory_data))
    /\ UNCHANGED <<invVars, appVars>>

ExportNext ==
    \/ Fresh /\ \E inventory_data \in Ledgers : CallExportInventoryToExcel(inventory_data)
    \/ Fresh /\ \E inventory_data \in Ledgers : CallMgmtExportInventoryToExcel(inventory_data)

SpecExport == InvInit /\ [][ExportNext]_vars

Exported == invoked.fn \in {"export_inventory_to_excel", "mgmt_export_inventory_to_excel"}

\* the header text a column stands under: its sub-header, or its own header
ColumnKey(sheet, col) == IF sheet.row2[col] # "" THEN sheet.row2[col] ELSE sheet.row1[col]

Umbrellas(sheet) == {range \in sheet.merged : range.first_row = 1 /\ range.last_row = 1}

\* n columns under a two-row header: a column is either one header cell over
\* both rows or stands under an umbrella group whose name is in its first cell
TwoRowHeader(sheet, n) ==
    /\ Len(sheet.row1) = n /\ Len(sheet.row2) = n
    /\ \A col \in 1..n :
          Cardinality({range \in sheet.merged :
                          range.first_col <= col /\ col <= range.last_col}) = 1
    /\ \A range \in sheet.merged :
          /\ 1 <= range.first_col /\ range.last_col <= n
          /\ sheet.row1[range.first_col] # ""
          /\ IF range \in Umbrellas(sheet)
             THEN /\ range.first_col < range.last_col
                  /\ \A col \in (range.first_col + 1)..range.last_col : sheet.row1[col] = ""
                  /\ \A col \in range.first_col..range.last_col : sheet.row2[col] # ""
             ELSE /\ range.first_col = range.last_col
                  /\ range.first_row = 1 /\ range.last_row = 2
                  /\ sheet.row2[range.first_col] = ""

\* the columns of the inventory page's ledger that hold '-' for every item
PageDashColumns ==
    {"existing", "priority", "persistent", "content_info", "registration_target",
     "existing_status"}

\* every data row has one cell per column, and the cell of a column is the
\* item's value under the column's key when the item has that key
RowsUnderHeaders(sheet, inventory_data, n, dash_columns) ==
    /\ Len(sheet.data) = Len(inventory_data)
    /\ \A i \in 1..Len(sheet.data) :
          /\ Len(sheet.data[i]) = n
          /\ \A col \in 1..n :
                IF ColumnKey(sheet, col) \in dash_columns
                THEN sheet.data[i][col] = "-"
                ELSE ColumnKey(sheet, col) \in DOMAIN inventory_data[i]
                     => sheet.data[i][col] = inventory_data[i][ColumnKey(sheet, col)]

LedgerOf(sheet, inventory_data, n, dash_columns) ==
    /\ TwoRowHeader(sheet, n)
    /\ Cardinality(Umbrellas(sheet)) = 4
    /\ RowsUnderHeaders(sheet, inventory_data, n, dash_columns)

\* C25 as stated: every exported ledger has exactly 24 columns in one fixed
\* order under a two-row header with four umbrella groups, and every data row
\* has one cell per column, under the sub-header of the field it holds.
C25_Ledger24Columns ==
    Exported => LedgerOf(returned.value, invoked.inventory_data, 24, {})

\* C25, amended: the ledger of the inventory page has exactly 26 columns and
\* that of the management page exactly 27 (the unit workplace after the
\* process), each in its fixed order under a two-row header with four umbrella
\* groups; every data row has one cell per column, holding the item's value
\* under the column's key, but for six environmental columns of the inventory
\* page's ledger, which hold '-' whatever the item holds.
C25_LedgerLayout ==
    /\ invoked.fn = "export_inventory_to_excel"
       => /\ LedgerOf(returned.value, invoked.inventory_data, 26, PageDashColumns)
          /\ returned.value.row1 = export_inventory_to_excel(<<>>).row1
          /\ returned.value.row2 = export_inventory_to_excel(<<>>).row2
    /\ invoked.fn = "mgmt_export_inventory_to_excel"
       => /\ LedgerOf(returned.value, invoked.inventory_data, 27, {})
          /\ returned.value.row1 = mgmt_export_inventory_to_excel(<<>>).row1
          /\ returned.value.row2 = mgmt_export_inventory_to_excel(<<>>).row2

\* the inventory page exported a list of a management item and a page item
C25_Witness ==
    /\ invoked.fn = "export_inventory_to_excel"
    /\ Len(invoked.inventory_data) = 2
    /\ "toxic_class" \in DOMAIN invoked.inventory_data[1]
    /\ "toxic" \in DOMAIN invoked.inventory_data[2]
    /\ Len(returned.value.data[2]) = 26

\* the cursor is a row count of the uploaded sheet
C26_CursorInFile == df # <<>> => processed_rows \in 0..Len(df)

\* a click handles the next min(batch size, remaining) rows and moves the
\* cursor past them, back to 0 after the last row
C26_ClickAdvances ==
    NextBatch
    => LET n == Min(BatchSize, Len(df) - processed_rows) IN
       /\ n > 0
       /\ BatchDf = SubSeq(df, processed_rows + 1, processed_rows + n)
       /\ processed_rows' = IF processed_rows + n = Len(df) THEN 0 ELSE processed_rows + n

\* C26: the batch cursor processed_rows stays within 0..len(file) and each
\* 'next batch' click advances it by min(batch size, remaining), so that from
\* an upload until the cursor is back at 0 every row is handled exactly once,
\* also when the uploaded file is replaced or the inventory is cleared in
\* between.
C26_CursorCoversEachRowOnce == []C26_CursorInFile /\ [][C26_ClickAdvances]_vars

\* a click advances as stated whenever the cursor is within the sheet
C26_ClickAdvancesInsideSheet ==
    [][(processed_rows <= Len(df) /\ NextBatch) => C26_ClickAdvances]_vars

(***************************************************************************)
(* modules/msds/app.py (pages/1 repeats its lookup, manual and delete      *)
(* handlers): the MSDS draft.  msds_data.section3 is section3_data         *)
(* ['components'], msds_data.section8 is section8_data['exposure_limits']. *)
(* The content and content range of a component are copied from the number *)
(* and text inputs and left out.                                           *)
(***************************************************************************)
MaxComponents == 3      \* components a draft holds in the model
MaxEntries == 2         \* exposure entries a draft holds in the model

\* core.kosha_api defines the three names imported; core.prtr_db and
\* core.ghs_utils are taken to import as well
MSDS_KOSHA_AVAILABLE == TRUE

CasToluene == <<"108-88-3">>       \* typed by hand; the model's registry lacks it

MsdsCasInputs == {<<>>, CasAcetone, <<" ">> \o CasAcetone, CasUnknown}
ManualNames == {"", "solvent"}
ManualCas == {<<>>, CasAcetone, CasToluene}
MsdsExchanges == {[i \in 1..7 |-> "answer"], [i \in 1..7 |-> "timeout"],
                  [i \in 1..7 |-> IF i = 3 THEN "timeout" ELSE "answer"]}
SheetRows == [name : ManualNames, cas : {CasAcetone, CasToluene}]
ComponentSheets == UNION {[1..n -> SheetRows] : n \in 1..2}

ComponentCas(components) == [i \in 1..Len(components) |-> components[i].cas_no]

\* the new component and, for a known TWA, the new exposure entry
LookedUpComponent(cas, result) ==
    [cas_no |-> cas, name |-> Get(result, "name_kor", ""),
     kosha_data |-> result, prtr_status |-> check_prtr_status(cas)]

ExposureEntry(cas, result) ==
    [substance |-> Get(result, "name_kor", PyNone), cas_no |-> cas,
     twa |-> Get(result.exposure_limits, "TWA", "-"),
     stel |-> Get(result.exposure_limits, "STEL", "-")]

\* the draft after the "look up and add" button
AddedByCas(draft, cas_input, https) ==
    IF cas_input = <<>> THEN draft
    ELSE LET cas == Strip(cas_input)
             result == get_full_msds_data(cas, https)
         IN  IF ~Get(result, "success", FALSE) THEN draft
             ELSE IF cas \in Range(ComponentCas(draft.section3)) THEN draft
             ELSE [section3 |-> Append(draft.section3, LookedUpComponent(cas, result)),
                   section8 |-> IF Known(Get(result.exposure_limits, "TWA", PyNone))
                                THEN Append(draft.section8, ExposureEntry(cas, result))
                                ELSE draft.section8]

AddByCas(cas_input, https) ==
    /\ MSDS_KOSHA_AVAILABLE
    /\ Len(msds_data.section3) < MaxComponents
    /\ Len(msds_data.section8) < MaxEntries
    /\ msds_data' = AddedByCas(msds_data, cas_input, https)
    /\ UNCHANGED <<invVars, callVars, stored, session>>

ManualComponent(name, cas) ==
    [cas_no |-> cas, name |-> name, kosha_data |-> NoDict,
     prtr_status |-> IF cas # <<>> THEN check_prtr_status(cas) ELSE NoDict]

\* the "add" button of the manual input
AddManual(manual_name, manual_cas) ==
    /\ Len(msds_data.section3) < MaxComponents
    /\ msds_data' = IF manual_name = "" THEN msds_data
                    ELSE [msds_data EXCEPT
                             !.section3 = Append(@, ManualComponent(manual_name, manual_cas))]
    /\ UNCHANGED <<invVars, callVars, stored, session>>

SheetComponent(row) ==
    [cas_no |-> Strip(row.cas), name |-> row.name, kosha_data |-> NoDict, prtr_status |-> NoDict]

\* the "add all" button of the spreadsheet upload: every row with a name
AddFromSheet(sheet) ==
    /\ Len(msds_data.section3) + Len(sheet) <= MaxComponents
    /\ msds_data' = [msds_data EXCEPT
                        !.section3 = @ \o [i \in 1..Len(SelectSeq(sheet, LAMBDA row : row.name # "")) |->
                                              SheetComponent(SelectSeq(sheet, LAMBDA row : row.name # "")[i])]]
    /\ UNCHANGED <<invVars, callVars, stored, session>>

\* the bin button of component i: components.pop(i)
DeleteComponent(i) ==
    /\ i \in 1..Len(msds_data.section3)
    /\ msds_data' = [msds_data EXCEPT
                        !.section3 = [k \in 1..(Len(@) - 1) |-> IF k < i THEN @[k] ELSE @[k + 1]]]
    /\ UNCHANGED <<invVars, callVars, stored, session>>

\* the reset button: every section key is deleted and initialised again
ResetDraft ==
    /\ msds_data' = NoDraft
    /\ UNCHANGED <<invVars, callVars, stored, session>>

MsdsNext ==
    \/ \E cas_input \in MsdsCasInputs, https \in MsdsExchanges : AddByCas(cas_input, https)
    \/ \E manual_name \in ManualNames, manual_cas \in ManualCas : AddManual(manual_name, manual_cas)
    \/ \E sheet \in ComponentSheets : AddFromSheet(sheet)
    \/ \E i \in 1..MaxComponents : DeleteComponent(i)
    \/ ResetDraft

SpecMsds == InvInit /\ [][MsdsNext]_vars

\* C27: every exposure-limit entry of section 8 belongs to a component that
\* is in section 3 at present, whatever additions (CAS lookup, manual,
\* spreadsheet), deletions and resets came before, and no component has more
\* than one entry.
C27_ExposureEntriesFollowComponents ==
    /\ \A k \in 1..Len(msds_data.section8) :
          msds_data.section8[k].cas_no \in Range(ComponentCas(msds_data.section3))
    /\ \A k, l \in 1..Len(msds_data.section8) :
          msds_data.section8[k].cas_no = msds_data.section8[l].cas_no => k = l

\* C28: section 3 never holds two components with the same non-empty CAS
\* number, whatever entry paths and deletions were used.
C28_NoDuplicateCas ==
    \A k, l \in 1..Len(msds_data.section3) :
        (msds_data.section3[k].cas_no # <<>>
         /\ msds_data.section3[k].cas_no = msds_data.section3[l].cas_no) => k = l

\* what the lookup path alone keeps: it never adds a CAS number that is there
C28_LookupChecksDuplicates ==
    [][\A cas_input \in MsdsCasInputs, https \in MsdsExchanges :
          (AddByCas(cas_input, https) /\ msds_data' # msds_data)
          => Strip(cas_input) \notin Range(ComponentCas(msds_data.section3))]_vars

\* ---- MSDS section 9: physical and chemical properties ---------------------
MaxGenerated == 2       \* components the generator holds in the model

\* the nine properties of section 9, in the order of the dict props
Section9Keys ==
    <<"appearance", "odor", "pH", "melting_point", "boiling_point",
      "flash_point", "vapor_pressure", "specific_gravity", "solubility">>

Section9Defaults == [key \in Range(Section9Keys) |-> Dash]

\* the first property, in the order of props, the registry data has a value
\* for; 0 when it has none
FirstKnownKey(phys) ==
    LET known == {k \in 1..Len(Section9Keys) : KnownText(phys, Section9Keys[k])}
    IN  IF known = {} THEN 0 ELSE CHOOSE k \in known : \A j \in known : k <= j

\* the inner loop as the first-wins reading would have it: every property
\* that is still '-' takes the component's value
Section9StepFirstWins(props, comp) ==
    IF IsNoDict(comp.kosha_data) THEN props
    ELSE LET phys == Get(comp.kosha_data, "physical_properties", NoDict)
         IN  [key \in DOMAIN props |->
                 IF props[key] = Dash /\ KnownText(phys, key) THEN phys[key] ELSE props[key]]

\* one turn of the loop over the components: the inner loop assigns the first
\* property that has a value and breaks
Section9Step(props, comp) ==
    IF IsNoDict(comp.kosha_data) THEN props
    ELSE LET phys == Get(comp.kosha_data, "physical_properties", NoDict)
             k == FirstKnownKey(phys)
         IN  IF k = 0 THEN props
             ELSE [props EXCEPT ![Section9Keys[k]] = phys[Section9Keys[k]]]

RECURSIVE Section9Props(_, _)
Section9Props(props, components) ==
    IF components = <<>> THEN props
    ELSE Section9Props(Section9Step(props, Head(components)), Tail(components))

gen_section_9(components) ==
    ("item_name" :> <<"9.", "physical_chemical_properties">>)
        @@ Section9Props(Section9Defaults, components)

\* the page's own field names
FieldMap(key) == IF key = "pH" THEN "ph" ELSE key

Section9Data == [field \in {FieldMap(key) : key \in Range(Section9Keys)} |-> <<>>]

\* the button "take the properties from the components": every property a
\* component has a value for is written, a later component over an earlier
FillStep(data, comp) ==
    IF IsNoDict(comp.kosha_data) THEN data
    ELSE LET phys == Get(comp.kosha_data, "physical_properties", NoDict)
         IN  [field \in DOMAIN data |->
                 LET key == CHOOSE k \in Range(Section9Keys) : FieldMap(k) = field
                 IN  IF KnownText(phys, key) THEN phys[key] ELSE data[field]]

RECURSIVE FillSection9(_, _)
FillSection9(data, components) ==
    IF components = <<>> THEN data
    ELSE FillSection9(FillStep(data, Head(components)), Tail(components))

\* registry data of a component: three of the properties vary
PhysicalSets ==
    {[ChainDefaults(PhysicalChain) EXCEPT
         !.appearance = a, !.boiling_point = b, !.flash_point = f] :
       a \in {Dash, <<"liquid">>, <<"solid">>},
       b \in {Dash, <<"56">>, <<"110">>},
       f \in {Dash, <<"-20">>}}

\* a component as add_component leaves it: kosha_data is None or the answer
GeneratorComponents ==
    {[kosha_data |-> NoDict]} \cup
    {[kosha_data |-> [success |-> TRUE, physical_properties |-> phys]] : phys \in PhysicalSets}

ComponentLists == UNION {[1..n -> GeneratorComponents] : n \in 1..MaxGenerated}

CallGenSection9(components) ==
    /\ invoked' = [fn |-> "_gen_section_9", components |-> components]
    /\ returned' = Returned("_gen_section_9", gen_section_9(components))
    /\ UNCHANGED <<invVars, appVars>>

CallFillSection9(components) ==
    /\ components # <<>>
    /\ invoked' = [fn |-> "fill_section_9", components |-> components]
    /\ returned' = Returned("fill_section_9", FillSection9(Section9Data, components))
    /\ UNCHANGED <<invVars, appVars>>

Section9Next ==
    \/ Fresh /\ \E components \in ComponentLists : CallGenSection9(components)
    \/ Fresh /\ \E components \in ComponentLists : CallFillSection9(components)

SpecSection9 == InvInit /\ [][Section9Next]_vars

\* the components, in insertion order, whose registry data has a value for key
Suppliers(components, key) ==
    {i \in 1..Len(components) :
        /\ ~IsNoDict(components[i].kosha_data)
        /\ KnownText(components[i].kosha_data.physical_properties, key)}

FirstSupplier(components, key) ==
    CHOOSE i \in Suppliers(components, key) : \A j \in Suppliers(components, key) : i <= j

\* C29: each property of section 9 reports the value of the first component,
\* in insertion order, whose registry data has a value other than '-' for it,
\* and '-' only when no component has one; a component with values for
\* several properties supplies all of them.
C29_FirstComponentSuppliesEachProperty ==
    invoked.fn = "_gen_section_9" =>
        \A k \in 1..Len(Section9Keys) :
            LET key == Section9Keys[k]
            IN  returned.value[key] =
                    IF Suppliers(invoked.components, key) = {} THEN Dash
                    ELSE invoked.components[FirstSupplier(invoked.components, key)]
                             .kosha_data.physical_properties[key]

\* what the generator does keep: a reported value other than '-' is the value
\* some component has for that property
C29_ReportedValuesComeFromComponents ==
    invoked.fn = "_gen_section_9" =>
        \A k \in 1..Len(Section9Keys) :
            LET key == Section9Keys[k]
            IN  returned.value[key] # Dash =>
                    \E i \in Suppliers(invoked.components, key) :
                        returned.value[key] = invoked.components[i].kosha_data.physical_properties[key]

\* the page's button fills every property some component has a value for,
\* with the value of the last such component
C29_ButtonTakesLastSupplier ==
    invoked.fn = "fill_section_9" =>
        \A k \in 1..Len(Section9Keys) :
            LET key == Section9Keys[k]
                sup == Suppliers(invoked.components, key)
            IN  returned.value[FieldMap(key)] =
                    IF sup = {} THEN <<>>
                    ELSE invoked.components[CHOOSE i \in sup : \A j \in sup : j <= i]
                             .kosha_data.physical_properties[key]

\* ---- get_all_regulations_summary ------------------------------------------
MaxTypes == 3           \* classification items the registry holds for a substance

\* classification_map in the order of its keys
ClassificationOrder ==
    <<"toxic", "restricted", "prohibited", "permitted", "accident_preparedness",
      "existing_chemical", "registration_target", "mass_produced", "priority_control">>

\* the type lists the registry may hold: up to MaxTypes items of TypeItems
TypeLists == UNION {[1..n -> TypeItems] : n \in 0..MaxTypes}

\* the registry's answer when it holds type_list for the substance
KecoAnswerWith(cas_no, type_list) ==
    [header |-> [resultCode |-> "200", resultMsg |-> "NORMAL"],
     body |-> [items |-> IF KecoItems(cas_no) = <<>> THEN <<>>
                         ELSE << [KecoItems(cas_no)[1] EXCEPT !.typeList = type_list] >>]]

\* search_chemical_by_cas against that registry
SearchInRegistry(cas_no, http, type_list) ==
    TryExcept(IF http \in {"timeout", "http_error", "malformed"} THEN Raised
              ELSE parse_response(IF http = "not_object" THEN [list |-> <<>>]
                                  ELSE KecoAnswerWith(cas_no, type_list), cas_no),
              [success |-> FALSE, cas_no |-> cas_no,
               error |-> IF http = "malformed" THEN "parse_error" ELSE "request_error"])

\* [k for k, v in classifications.items() if v == "O" and k != "details"]
\* with the comparison v.startswith("O") in the place of v == "O"
active_regs_by_prefix(classifications) ==
    SelectSeq(ClassificationOrder,
              LAMBDA k : k \in DOMAIN classifications /\ classifications[k] # "-")

\* [k for k, v in classifications.items() if v == "O" and k != "details"]
active_regs(classifications) ==
    SelectSeq(ClassificationOrder,
              LAMBDA k : k \in DOMAIN classifications /\ classifications[k] = "O")

\* ", ".join(names) as a token text
RECURSIVE CommaJoin(_)
CommaJoin(names) ==
    IF names = <<>> THEN <<>>
    ELSE IF Len(names) = 1 THEN names
    ELSE <<names[1], ", ">> \o CommaJoin(Tail(names))

get_all_regulations_summary(cas_no, http, type_list) ==
    LET result == SearchInRegistry(cas_no, http, type_list)
    IN  IF ~Get(result, "success", FALSE) THEN Dash
        ELSE IF active_regs(Get(result, "classification", NoDict)) = <<>> THEN Dash
        ELSE CommaJoin(active_regs(Get(result, "classification", NoDict)))

CallGetAllRegulationsSummary(cas_no, http, type_list) ==
    /\ invoked' = [fn |-> "get_all_regulations_summary", cas_no |-> cas_no,
                   http |-> http, type_list |-> type_list]
    /\ returned' = [fn |-> "get_all_regulations_summary", raised |-> FALSE,
                    value |-> get_all_regulations_summary(cas_no, http, type_list)]
    /\ UNCHANGED <<invVars, appVars>>

SummaryNext ==
    Fresh /\ \E cas_no \in {CasAcetone, CasUnknown}, http \in HttpKinds, type_list \in TypeLists :
                CallGetAllRegulationsSummary(cas_no, http, type_list)

SpecSummary == InvInit /\ [][SummaryNext]_vars

\* the lookup the call made, and the classifications extract_classifications
\* marked as applying in it
SummaryLookup == SearchInRegistry(invoked.cas_no, invoked.http, invoked.type_list)
SummaryFailed == ~Get(SummaryLookup, "success", FALSE)
Applying == {c \in ClassificationNames : SummaryLookup.classification[c] # "-"}
Listed == Range(returned.value) \ {", "}

\* C30: get_all_regulations_summary returns '-' exactly when the lookup
\* failed or no classification applies; otherwise it lists every
\* classification extract_classifications marked as applying, those marked
\* with a content qualifier included, and none whose status is '-'.
C30_SummaryListsEveryApplying ==
    invoked.fn = "get_all_regulations_summary" =>
        IF SummaryFailed \/ Applying = {} THEN returned.value = Dash
        ELSE returned.value # Dash /\ Listed = Applying

\* what the summary does keep: '-' for a failed lookup, and only
\* classifications marked with the bare "O" in the list
C30_SummaryListsBareMarks ==
    invoked.fn = "get_all_regulations_summary" =>
        IF SummaryFailed THEN returned.value = Dash
        ELSE LET bare == {c \in ClassificationNames : SummaryLookup.classification[c] = "O"}
             IN  IF bare = {} THEN returned.value = Dash
                 ELSE returned.value # Dash /\ Listed = bare

\* the registry of the other lookups is one of the registries drawn here
C30_SameLookup ==
    invoked.fn = "get_all_regulations_summary" /\ invoked.type_list = KecoTypeList =>
        SummaryLookup = search_chemical_by_cas(invoked.cas_no, invoked.http)

====
